---- MODULE Spec2Model ----
(***************************************************************************)
(* Model of the threshold-ECDSA orchestration layer of keep-ecdsa:         *)
(* GenerateThresholdSigner and ThresholdSigner.CalculateSignature          *)
(* (pkg/ecdsa/tss/tss.go) for one local member, with the transport and the *)
(* peers as the environment.  The functions tss.go calls but does not      *)
(* define (newNetworkBridge, initializeKeyGeneration, initializeSigning,   *)
(* joinProtocol, generateKey, sign) are modelled from the design document. *)
(***************************************************************************)
EXTENDS Integers, Sequences, FiniteSets, TLC

VARIABLES
    cfg,        \* the two timeout constants the build was made with
    clock,      \* seconds elapsed since the current call started
    pc,         \* position of the current call
    call,       \* arguments of the current call
    group,      \* the groupInfo the current call works with
    bridge,     \* the network bridge of the current call
    ctx,        \* the context (deadline) of the current call
    join,       \* the join protocol instance of the current call
    rounds,     \* the cryptographic rounds of the current call
    sent,       \* envelopes the current call handed to the transport
    subscribed, \* the current call subscribed to the broadcast channel
    result,     \* what the current call returned
    signer,     \* the ThresholdSigner the last successful key generation made
    net,        \* network bridges of concurrent executions on one transport
    tasks,      \* the tasks and channels of one execution's rounds
    codec,      \* a value on its way through Marshal and Unmarshal
    keepBonding \* the KeepBonding contract with the accounts of its tests

\* the state of the local member's call
callVars == <<cfg, clock, pc, call, group, bridge, ctx, join, rounds, sent,
              subscribed, result, signer>>

\* the state of the components that are checked on their own
others == <<net, tasks, codec, keepBonding>>

vars == <<callVars, others>>

----------------------------------------------------------------------------
(* Bounds of the model *)

MaxGroup == 3       \* longest list of group member ids
IntBits == 8        \* width of Go's int and uint, scaled down from 32 / 64
TickSeconds == 60   \* granularity of the clock
ShortTimeout == 60  \* the value a timeout constant is changed to
MaxSignals == 3     \* join / announce signals observed by one join protocol
NumRounds == 2      \* rounds of the cryptographic computation
NumExecs == 2       \* executions that run at the same time on one transport
MaxSeq == 2         \* round-sequence numbers of the round messages
MaxBridgeOps == 3   \* envelopes that arrive at or leave the bridges
ChanCap == 1        \* messages a channel between two tasks holds
MaxTaskMsgs == 4    \* inbound messages the computation needs to complete
Int32Bits == 4      \* width of Go's int32, scaled down from 32
MaxDeposit == 2     \* value deposited in the bonding contract, in all

----------------------------------------------------------------------------
(* Program constants *)

keyGenerationTimeout == 120
signingTimeout == 120

TSSProtocolMessageType == "ecdsa/tss_message"
JoinMessageType == "ecdsa/join_message"
AnnounceMessageType == "ecdsa/announce_message"

HashLen == 32

\* the field prime of the curve of tss.EC(), scaled down
CurveP == 11

----------------------------------------------------------------------------
(* Values *)

\* int(x) for an unsigned x: the same bits read as two's complement
ToInt(u) == IF u >= 2 ^ (IntBits - 1) THEN u - 2 ^ IntBits ELSE u

\* the list <<1, ..., n>> of member ids
IDs(n) == [i \in 1..n |-> i]

Range(s) == {s[i] : i \in 1..Len(s)}

GroupLists == {IDs(n) : n \in 0..MaxGroup}

\* member ids the transport can carry: the group's and one outsider's
AllIDs == 1..(MaxGroup + 1)

\* values of the uint argument dishonestThreshold
Thresholds == {0, 1, MaxGroup - 1, MaxGroup, MaxGroup + 1,
               2 ^ (IntBits - 1) - 1, 2 ^ (IntBits - 1)}

DigestLens == {HashLen - 1, HashLen, HashLen + 1}

TimeoutChoices(default) == {default, ShortTimeout}

NoErr == [wrap |-> "", cause |-> ""]
Err(w, c) == [wrap |-> w, cause |-> c]

NoGroup == [groupID |-> "", memberID |-> 0, groupMemberIDs |-> <<>>,
            dishonestThreshold |-> 0]

NoCall == [kind |-> "none", groupMemberIDs |-> <<>>, memberID |-> 0,
           dishonestThreshold |-> 0, digestLen |-> 0, silent |-> {},
           preParams |-> FALSE]

NoCtx == [set |-> FALSE, deadline |-> 0]

NoJoin == [state |-> "None", seen |-> {}, nsignals |-> 0, runs |-> 0,
           deadline |-> 0]

NoRounds == [started |-> FALSE, n |-> 0, phase |-> "none", deadline |-> 0]

NoResult == [val |-> "nil", err |-> NoErr]

NoSigner == [present |-> FALSE, groupInfo |-> NoGroup, thresholdKey |-> ""]

NoNet == [on |-> FALSE]

NoTasks == [on |-> FALSE]

NoCodec == [on |-> FALSE]

NoBonding == [on |-> FALSE]

\* the members of the group other than the local one
Peers(g) == Range(g.groupMemberIDs) \ {g.memberID}

\* mutant: an error comes with a value that is not nil
ReturnValueWithError(val, err) ==
    /\ pc' = "returned"
    /\ result' = [val |-> IF err.cause # "" THEN "partial" ELSE val,
                  err |-> err]

Return(val, err) ==
    /\ pc' = "returned"
    /\ result' = [val |-> val, err |-> err]

\* mutant: the context of the call is never cancelled
DeferredCancelOmitted == UNCHANGED <<bridge, subscribed>>

\* defer cancel(): the context of the call is cancelled when the call
\* returns; the bridge, which runs under that context, closes its channels
DeferredCancel ==
    /\ bridge' = "closed"
    /\ subscribed' = FALSE

\* a return after the context was created
ReturnCancelled(val, err) ==
    /\ Return(val, err)
    /\ DeferredCancel

\* the call goes on: its bridge stays as it is
BridgeKept == UNCHANGED <<bridge, subscribed>>

----------------------------------------------------------------------------
(* GenerateThresholdSigner, tss.go *)

\* mutant: the check lets a group of one member through
GroupSizeInvalidOffByOne(ids) == Len(ids) < 1

\* if len(groupMemberIDs) < 2
GroupSizeInvalid(ids) == Len(ids) < 2

\* if len(groupMemberIDs) <= int(dishonestThreshold)
ThresholdInvalid(ids, t) == Len(ids) <= ToInt(t)

\* group := &groupInfo{...}
NewGroupInfo(gid, mid, ids, t) ==
    [groupID |-> gid, memberID |-> mid, groupMemberIDs |-> ids,
     dishonestThreshold |-> ToInt(t)]

\* mutant: the context is made without the timeout
KeyGenContextNoTimeout(start) == [set |-> TRUE, deadline |-> start]

\* ctx, cancel := context.WithTimeout(context.Background(), keyGenerationTimeout)
KeyGenContext(start) == [set |-> TRUE, deadline |-> start + cfg.keyGen]

\* mutant: the network bridge is created before the arguments are checked
GenerateThresholdSignerBridgeFirst(ids, mid, t, sil, bridgeOK, pre) ==
    /\ pc = "idle"
    /\ ~signer.present
    /\ call' = [kind |-> "keygen", groupMemberIDs |-> ids, memberID |-> mid,
                dishonestThreshold |-> t, digestLen |-> 0, silent |-> sil,
                preParams |-> pre]
    /\ clock' = 0
    /\ join' = NoJoin
    /\ rounds' = NoRounds
    /\ sent' = <<>>
    /\ subscribed' = FALSE
    /\ IF ~bridgeOK
       THEN /\ bridge' = "none"
            /\ group' = NoGroup
            /\ ctx' = NoCtx
            /\ Return("nil", Err("bridge", "BridgeFailure"))
       ELSE /\ bridge' = "open"
            /\ IF GroupSizeInvalid(ids)
               THEN /\ Return("nil", Err("", "InvalidGroupSize"))
                    /\ group' = NoGroup
                    /\ ctx' = NoCtx
               ELSE IF ThresholdInvalid(ids, t)
               THEN /\ Return("nil", Err("", "ThresholdTooLarge"))
                    /\ group' = NoGroup
                    /\ ctx' = NoCtx
               ELSE /\ group' = NewGroupInfo("keep", mid, ids, t)
                    /\ ctx' = KeyGenContext(0)
                    /\ pc' = "init"
                    /\ result' = NoResult
    /\ UNCHANGED <<others, cfg, signer>>

\* The call up to the creation of the context: the two checks of the
\* arguments, the groupInfo, the network bridge (bridgeOK: whether
\* newNetworkBridge returns without error) and the context.  pre: whether
\* tssPreParams is given; when it is nil the call logs a warning and goes
\* on, and the nil is handed to initializeKeyGeneration.  A member
\* generates its signer once and signs with it afterwards.
GenerateThresholdSigner(ids, mid, t, sil, bridgeOK, pre) ==
    /\ pc = "idle"
    /\ ~signer.present
    /\ call' = [kind |-> "keygen", groupMemberIDs |-> ids, memberID |-> mid,
                dishonestThreshold |-> t, digestLen |-> 0, silent |-> sil,
                preParams |-> pre]
    /\ clock' = 0
    /\ join' = NoJoin
    /\ rounds' = NoRounds
    /\ sent' = <<>>
    /\ subscribed' = FALSE
    /\ IF GroupSizeInvalid(ids)
       THEN /\ Return("nil", Err("", "InvalidGroupSize"))
            /\ group' = NoGroup
            /\ bridge' = "none"
            /\ ctx' = NoCtx
       ELSE IF ThresholdInvalid(ids, t)
       THEN /\ Return("nil", Err("", "ThresholdTooLarge"))
            /\ group' = NoGroup
            /\ bridge' = "none"
            /\ ctx' = NoCtx
       ELSE /\ group' = NewGroupInfo("keep", mid, ids, t)
            /\ IF bridgeOK
               THEN /\ bridge' = "open"
                    /\ ctx' = KeyGenContext(0)
                    /\ pc' = "init"
                    /\ result' = NoResult
               ELSE /\ bridge' = "none"
                    /\ ctx' = NoCtx
                    /\ Return("nil", Err("bridge", "BridgeFailure"))
    /\ UNCHANGED <<others, cfg, signer>>

\* joinProtocol(ctx, group, networkProvider) is entered: a new instance,
\* bounded by the context it is given
StartJoin ==
    join' = [state |-> "Idle", seen |-> {}, nsignals |-> 0,
             runs |-> join.runs + 1, deadline |-> ctx.deadline]

\* mutant: the party is not initialized without pre-parameters
InitializeKeyGenerationNeedingPreParams(ok) ==
    /\ pc = "init"
    /\ call.kind = "keygen"
    /\ IF ok /\ call.preParams
       THEN /\ pc' = "join"
            /\ StartJoin
            /\ BridgeKept
            /\ UNCHANGED result
       ELSE /\ ReturnCancelled("nil", Err("", "PartyInitFailure"))
            /\ UNCHANGED join
    /\ UNCHANGED <<others, cfg, clock, call, group, ctx, rounds, sent, signer>>

\* keyGenSigner, err := initializeKeyGeneration(ctx, group, tssPreParams,
\* netBridge); if err != nil { return nil, err }; then joinProtocol starts.
\* Without pre-parameters the computation generates them itself.
InitializeKeyGeneration(ok) ==
    /\ pc = "init"
    /\ call.kind = "keygen"
    /\ IF ok
       THEN /\ pc' = "join"
            /\ StartJoin
            /\ BridgeKept
            /\ UNCHANGED result
       ELSE /\ ReturnCancelled("nil", Err("", "PartyInitFailure"))
            /\ UNCHANGED join
    /\ UNCHANGED <<others, cfg, clock, call, group, ctx, rounds, sent, signer>>

\* mutant: the rounds get a context of their own, started when they start
StartRoundsFreshContext ==
    rounds' = [started |-> TRUE, n |-> 0, phase |-> "send",
               deadline |-> clock + cfg.keyGen]

\* generateKey(ctx) / sign(ctx): the rounds are entered with the context of
\* the call
StartRounds ==
    rounds' = [started |-> TRUE, n |-> 0, phase |-> "send",
               deadline |-> ctx.deadline]

\* mutant: the error of joinProtocol is dropped
GenAfterJoinIgnoringError(joinErr) ==
    /\ pc' = "rounds"
    /\ StartRounds
    /\ BridgeKept
    /\ UNCHANGED result

\* if err := joinProtocol(...); err != nil { return nil, "failed to join
\* the protocol" }; then keyGenSigner.generateKey(ctx)
GenAfterJoin(joinErr) ==
    IF joinErr # ""
    THEN /\ ReturnCancelled("nil", Err("join", joinErr))
         /\ UNCHANGED rounds
    ELSE /\ pc' = "rounds"
         /\ StartRounds
         /\ BridgeKept
         /\ UNCHANGED result

\* mutant: an error of the rounds is swallowed and the rounds go on
GenAfterRoundsRetrying(roundsErr) ==
    IF roundsErr # ""
    THEN /\ BridgeKept
         /\ UNCHANGED <<pc, result, signer>>
    ELSE /\ ReturnCancelled("signer", NoErr)
         /\ signer' = [present |-> TRUE, groupInfo |-> group,
                       thresholdKey |-> "key"]

\* signer, err := keyGenSigner.generateKey(ctx); if err != nil { return
\* nil, "failed to generate key" }; return signer, nil
GenAfterRounds(roundsErr) ==
    IF roundsErr # ""
    THEN /\ ReturnCancelled("nil", Err("generate", roundsErr))
         /\ UNCHANGED signer
    ELSE /\ ReturnCancelled("signer", NoErr)
         /\ signer' = [present |-> TRUE, groupInfo |-> group,
                       thresholdKey |-> "key"]

----------------------------------------------------------------------------
(* ThresholdSigner.CalculateSignature, tss.go *)

\* ctx, cancel := context.WithTimeout(context.Background(), keyGenerationTimeout)
SigningContext(start) == [set |-> TRUE, deadline |-> start + cfg.keyGen]

\* The call up to the creation of the context: the network bridge for the
\* signer's groupInfo and the context.
CalculateSignature(dlen, sil, bridgeOK) ==
    /\ pc = "idle"
    /\ signer.present
    /\ call' = [kind |-> "sign", groupMemberIDs |-> <<>>, memberID |-> 0,
                dishonestThreshold |-> 0, digestLen |-> dlen, silent |-> sil,
                preParams |-> FALSE]
    /\ clock' = 0
    /\ join' = NoJoin
    /\ rounds' = NoRounds
    /\ sent' = <<>>
    /\ subscribed' = FALSE
    /\ group' = signer.groupInfo
    /\ IF bridgeOK
       THEN /\ bridge' = "open"
            /\ ctx' = SigningContext(0)
            /\ pc' = "init"
            /\ result' = NoResult
       ELSE /\ bridge' = "none"
            /\ ctx' = NoCtx
            /\ Return("nil", Err("bridge", "BridgeFailure"))
    /\ UNCHANGED <<others, cfg, signer>>

\* initializeSigning checks the digest first
DigestInvalid(dlen) == dlen # HashLen

\* signingSigner, err := s.initializeSigning(ctx, digest[:], netBridge);
\* if err != nil { return nil, "failed to initialize signing" }
InitializeSigning(ok) ==
    /\ pc = "init"
    /\ call.kind = "sign"
    /\ IF DigestInvalid(call.digestLen)
       THEN /\ ReturnCancelled("nil", Err("initSigning", "InvalidDigestLength"))
            /\ UNCHANGED join
       ELSE IF ok
       THEN /\ pc' = "join"
            /\ StartJoin
            /\ BridgeKept
            /\ UNCHANGED result
       ELSE /\ ReturnCancelled("nil", Err("initSigning", "PartyInitFailure"))
            /\ UNCHANGED join
    /\ UNCHANGED <<others, cfg, clock, call, group, ctx, rounds, sent, signer>>

\* mutant: the error of joinProtocol is dropped
SigAfterJoinIgnoringError(joinErr) ==
    /\ pc' = "rounds"
    /\ StartRounds
    /\ BridgeKept
    /\ UNCHANGED result

\* if err := joinProtocol(...); err != nil { return nil, "failed to join
\* the protocol:" }; then signingSigner.sign(ctx)
SigAfterJoin(joinErr) ==
    IF joinErr # ""
    THEN /\ ReturnCancelled("nil", Err("join", joinErr))
         /\ UNCHANGED rounds
    ELSE /\ pc' = "rounds"
         /\ StartRounds
         /\ BridgeKept
         /\ UNCHANGED result

\* mutant: a successful signing stores a new key in the signer
SigAfterRoundsStoringKey(roundsErr) ==
    IF roundsErr # ""
    THEN /\ ReturnCancelled("nil", Err("sign", roundsErr))
         /\ UNCHANGED signer
    ELSE /\ ReturnCancelled("signature", NoErr)
         /\ signer' = [signer EXCEPT !.thresholdKey = "refreshed key"]

\* signature, err := signingSigner.sign(ctx); if err != nil { return nil,
\* "failed to sign" }; return signature, err
SigAfterRounds(roundsErr) ==
    /\ IF roundsErr # ""
       THEN ReturnCancelled("nil", Err("sign", roundsErr))
       ELSE ReturnCancelled("signature", NoErr)
    /\ UNCHANGED signer

AfterJoin(joinErr) ==
    IF call.kind = "keygen" THEN GenAfterJoin(joinErr) ELSE SigAfterJoin(joinErr)

AfterRounds(roundsErr) ==
    IF call.kind = "keygen"
    THEN GenAfterRounds(roundsErr)
    ELSE SigAfterRounds(roundsErr)

----------------------------------------------------------------------------
(* joinProtocol: Idle -> Announcing -> Waiting(seen) -> Ready | TimedOut *)

\* the local member broadcasts its join message
JoinAnnounce ==
    /\ pc = "join"
    /\ join.state = "Idle"
    /\ join' = [join EXCEPT !.state = "Announcing"]
    /\ sent' = Append(sent, [type |-> JoinMessageType,
                             sender |-> group.memberID, broadcast |-> TRUE])
    /\ UNCHANGED <<others, cfg, clock, pc, call, group, bridge, ctx, rounds,
                   subscribed, result, signer>>

\* then listens for join and announce messages of the peers
JoinListen ==
    /\ pc = "join"
    /\ join.state = "Announcing"
    /\ join' = [join EXCEPT !.state = "Waiting"]
    /\ subscribed' = TRUE
    /\ UNCHANGED <<others, cfg, clock, pc, call, group, bridge, ctx, rounds, sent,
                   result, signer>>

\* mutant: a signal of any sender is taken into seen
SeenAfterAnySender(seen, p) == seen \cup {p}

\* the members a signal of sender p adds to seen
SeenAfter(seen, p) == seen \cup ({p} \cap Peers(group))

\* mutant: Ready as soon as as many signals as peers were observed
JoinCompleteByCount(seen, nsignals) == nsignals >= Cardinality(Peers(group))

\* Waiting -> Ready fires when seen = group_member_ids \ {local}
JoinComplete(seen, nsignals) == seen = Peers(group)

\* a join or announce message of sender p is observed before the deadline
JoinObserve(p, kind) ==
    /\ pc = "join"
    /\ join.state = "Waiting"
    /\ clock < join.deadline
    /\ p \notin call.silent
    /\ join.nsignals < MaxSignals
    /\ LET seen2 == SeenAfter(join.seen, p)
           n2 == join.nsignals + 1
       IN  IF JoinComplete(seen2, n2)
           THEN /\ join' = [join EXCEPT !.seen = seen2, !.nsignals = n2,
                                        !.state = "Ready"]
                /\ AfterJoin("")
           ELSE /\ join' = [join EXCEPT !.seen = seen2, !.nsignals = n2]
                /\ BridgeKept
                /\ UNCHANGED <<pc, result, rounds>>
    /\ UNCHANGED <<others, cfg, clock, call, group, ctx, sent, signer>>

\* the deadline passes while Waiting
JoinExpire ==
    /\ pc = "join"
    /\ join.state = "Waiting"
    /\ clock >= join.deadline
    /\ join' = [join EXCEPT !.state = "TimedOut"]
    /\ AfterJoin("JoinTimeout")
    /\ UNCHANGED <<others, cfg, clock, call, group, ctx, sent, signer>>

----------------------------------------------------------------------------
(* generateKey / sign: the rounds of the computation, through the bridge *)

TimeoutError == IF call.kind = "keygen" THEN "KeyGenerationTimeout"
                ELSE "SigningTimeout"

\* the computation hands a round message to the bridge, which sends it
RoundSend(isBroadcast, ok) ==
    /\ pc = "rounds"
    /\ rounds.phase = "send"
    /\ clock < rounds.deadline
    /\ IF ok
       THEN /\ sent' = Append(sent, [type |-> TSSProtocolMessageType,
                                     sender |-> group.memberID,
                                     broadcast |-> isBroadcast])
            /\ rounds' = [rounds EXCEPT !.phase = "recv"]
            /\ BridgeKept
            /\ UNCHANGED <<pc, result, signer>>
       ELSE /\ AfterRounds("TransportError")
            /\ UNCHANGED <<sent, rounds>>
    /\ UNCHANGED <<others, cfg, clock, call, group, ctx, join>>

\* the bridge feeds the inbound messages of the round to the computation
RoundReceive ==
    /\ pc = "rounds"
    /\ rounds.phase = "recv"
    /\ clock < rounds.deadline
    /\ IF rounds.n + 1 >= NumRounds
       THEN /\ rounds' = [rounds EXCEPT !.n = @ + 1, !.phase = "done"]
            /\ AfterRounds("")
       ELSE /\ rounds' = [rounds EXCEPT !.n = @ + 1, !.phase = "send"]
            /\ BridgeKept
            /\ UNCHANGED <<pc, result, signer>>
    /\ UNCHANGED <<others, cfg, clock, call, group, ctx, join, sent>>

\* the computation reports an error of its own
RoundFail ==
    /\ pc = "rounds"
    /\ clock < rounds.deadline
    /\ AfterRounds("ProtocolFailure")
    /\ UNCHANGED <<others, cfg, clock, call, group, ctx, join, rounds, sent>>

\* the deadline passes during the rounds
RoundExpire ==
    /\ pc = "rounds"
    /\ clock >= rounds.deadline
    /\ rounds' = [rounds EXCEPT !.phase = "expired"]
    /\ AfterRounds(TimeoutError)
    /\ UNCHANGED <<others, cfg, clock, call, group, ctx, join, sent>>

----------------------------------------------------------------------------
(* The caller takes the result; the locals of the call are gone *)

Finish ==
    /\ pc = "returned"
    /\ pc' = "idle"
    /\ clock' = 0
    /\ call' = NoCall
    /\ group' = NoGroup
    /\ bridge' = "none"
    /\ ctx' = NoCtx
    /\ join' = NoJoin
    /\ rounds' = NoRounds
    /\ sent' = <<>>
    /\ subscribed' = FALSE
    /\ result' = NoResult
    /\ UNCHANGED <<others, cfg, signer>>

----------------------------------------------------------------------------
(* Time *)

Tick ==
    /\ pc \in {"init", "join", "rounds"}
    /\ clock < ctx.deadline
    /\ clock' = clock + TickSeconds
    /\ UNCHANGED <<others, cfg, pc, call, group, bridge, ctx, join, rounds, sent,
                   subscribed, result, signer>>

----------------------------------------------------------------------------

Init ==
    /\ cfg \in [keyGen : TimeoutChoices(keyGenerationTimeout),
                 signing : TimeoutChoices(signingTimeout)]
    /\ clock = 0
    /\ pc = "idle"
    /\ call = NoCall
    /\ group = NoGroup
    /\ bridge = "none"
    /\ ctx = NoCtx
    /\ join = NoJoin
    /\ rounds = NoRounds
    /\ sent = <<>>
    /\ subscribed = FALSE
    /\ result = NoResult
    /\ signer = NoSigner
    /\ net = NoNet
    /\ tasks = NoTasks
    /\ codec = NoCodec
    /\ keepBonding = NoBonding

\* the local member is one of the group when the group has members
LocalIDs(ids) == IF Len(ids) = 0 THEN {1} ELSE Range(ids)

CallGenerate ==
    \E ids \in GroupLists, t \in Thresholds, bridgeOK \in BOOLEAN,
       pre \in BOOLEAN :
        \E mid \in LocalIDs(ids) :
            \E sil \in SUBSET (Range(ids) \ {mid}) :
                GenerateThresholdSigner(ids, mid, t, sil, bridgeOK, pre)

CallSign ==
    \E dlen \in DigestLens, bridgeOK \in BOOLEAN :
        \E sil \in SUBSET Peers(signer.groupInfo) :
            CalculateSignature(dlen, sil, bridgeOK)

Next ==
    \/ CallGenerate
    \/ \E ok \in BOOLEAN : InitializeKeyGeneration(ok)
    \/ CallSign
    \/ \E ok \in BOOLEAN : InitializeSigning(ok)
    \/ JoinAnnounce
    \/ JoinListen
    \/ \E p \in AllIDs, kind \in {JoinMessageType, AnnounceMessageType} :
          JoinObserve(p, kind)
    \/ JoinExpire
    \/ \E b \in BOOLEAN, ok \in BOOLEAN : RoundSend(b, ok)
    \/ RoundReceive
    \/ RoundFail
    \/ RoundExpire
    \/ Finish
    \/ Tick

Spec == Init /\ [][Next]_vars

\* the scheduler runs every enabled step of the call, and time passes
FairSpec ==
    /\ Spec
    /\ WF_vars(Tick)
    /\ WF_vars(JoinAnnounce)
    /\ WF_vars(JoinListen)
    /\ WF_vars(JoinExpire)
    /\ WF_vars(RoundExpire)

----------------------------------------------------------------------------
(* Properties *)

SentRoundMessage == \E i \in 1..Len(sent) : sent[i].type = TSSProtocolMessageType

NoNetworkActivity == bridge = "none" /\ sent = <<>> /\ ~subscribed

ConfigurationErrors == {"InvalidGroupSize", "ThresholdTooLarge"}

\* C1: the join protocol is Ready exactly when a signal of every member of
\* the group other than the local one was observed before the deadline, and
\* TimedOut otherwise: Ready implies seen is all the peers, Waiting and
\* TimedOut imply it is not (TimedOut only once the deadline has passed),
\* seen takes a member in only while Waiting before the deadline, however
\* many signals there were, and a Waiting protocol ends Ready or TimedOut.
C1_ReadyIffAllPeersSeen ==
    /\ [](join.state = "Ready" => join.seen = Peers(group))
    /\ [](join.state = "Waiting" => join.seen # Peers(group))
    /\ [](join.state = "TimedOut" =>
            join.seen # Peers(group) /\ clock >= join.deadline)
    /\ [][~(join'.seen \subseteq join.seen) =>
            join.state = "Waiting" /\ clock < join.deadline]_vars
    /\ (join.state = "Waiting" ~> join.state \in {"Ready", "TimedOut"})

\* C1 witness: three members, threshold 1; the local member and the one peer
\* it has seen are a quorum, three signals were observed, and the protocol
\* timed out
C1_Witness ==
    /\ join.state = "TimedOut"
    /\ Len(group.groupMemberIDs) = 3
    /\ group.dishonestThreshold = 1
    /\ Cardinality(join.seen) = 1
    /\ join.nsignals = 3

\* C2: the local party has started its rounds or produced a round message
\* only if the join protocol of this call is Ready.
C2_RoundsOnlyAfterJoin ==
    (rounds.started \/ SentRoundMessage) =>
        join.state = "Ready" /\ join.runs = 1

C2_Witness ==
    /\ call.kind = "keygen"
    /\ rounds.started
    /\ SentRoundMessage
    /\ join.state = "Ready"

\* C3: GenerateThresholdSigner with a list of 0 or 1 member ids has
\* returned the group-size error and no signer, for every threshold.
C3_SmallGroupRejected ==
    (call.kind = "keygen" /\ Len(call.groupMemberIDs) < 2) =>
        /\ pc = "returned"
        /\ result = [val |-> "nil", err |-> Err("", "InvalidGroupSize")]
        /\ ~signer.present

C3_Witness ==
    /\ call.kind = "keygen"
    /\ Len(call.groupMemberIDs) = 1
    /\ call.dishonestThreshold = 0
    /\ result.err.cause = "InvalidGroupSize"

\* C4: GenerateThresholdSigner with at least 2 members has returned the
\* threshold error and no signer when dishonestThreshold >= the number of
\* members, and no configuration error when it is smaller.
C4_LargeThresholdRejected ==
    (call.kind = "keygen" /\ Len(call.groupMemberIDs) >= 2) =>
        IF call.dishonestThreshold >= Len(call.groupMemberIDs)
        THEN /\ pc = "returned"
             /\ result = [val |-> "nil", err |-> Err("", "ThresholdTooLarge")]
        ELSE result.err.cause \notin ConfigurationErrors

\* C5: when GenerateThresholdSigner has returned a configuration error, the
\* call has created no bridge, broadcast no join message, sent no protocol
\* message, subscribed to nothing and started no join protocol.
C5_ConfigErrorBeforeNetwork ==
    (pc = "returned" /\ result.err.cause \in ConfigurationErrors) =>
        NoNetworkActivity /\ join.runs = 0 /\ ~ctx.set

C5_Witness ==
    /\ pc = "returned"
    /\ Len(call.groupMemberIDs) = 3
    /\ call.dishonestThreshold = 3
    /\ result.err.cause = "ThresholdTooLarge"

\* C6: when CalculateSignature with a digest of another length than the
\* hash length has returned, it has returned InvalidDigestLength and no
\* signature, and the call has made no network activity: no bridge, no
\* message sent, no subscription.  (The claim asks the same of a call whose
\* bridge could not be made; that case is left out here, so a violation of
\* this is a violation of the claim.)
C6_BadDigestBeforeNetwork ==
    (/\ call.kind = "sign"
     /\ DigestInvalid(call.digestLen)
     /\ pc = "returned"
     /\ result.err.cause # "BridgeFailure") =>
        /\ result = [val |-> "nil",
                     err |-> Err("initSigning", "InvalidDigestLength")]
        /\ NoNetworkActivity

\* C7: when the join protocol has not reached Ready, the call has returned
\* the join error JoinTimeout and no result, has not started the rounds nor
\* sent a round message, and has run the join protocol once.
C7_JoinTimeoutFailsCall ==
    (join.state = "TimedOut"
        \/ (pc = "returned" /\ join.runs > 0 /\ join.state # "Ready")) =>
        /\ pc = "returned"
        /\ join.state = "TimedOut"
        /\ result = [val |-> "nil", err |-> Err("join", "JoinTimeout")]
        /\ ~rounds.started
        /\ ~SentRoundMessage
        /\ join.runs = 1
        /\ call.kind = "keygen" => ~signer.present

C7_Witness ==
    /\ call.kind = "sign"
    /\ join.state = "TimedOut"
    /\ pc = "returned"

\* a key generation of three members of which a member other than the
\* local one never signals
SilentMemberScenario ==
    /\ call.kind = "keygen"
    /\ Len(call.groupMemberIDs) = 3
    /\ call.silent # {}

\* C8: in a 3-member key generation with a member that never signals, a
\* member that has entered the join protocol returns no signer, returns
\* only JoinTimeout, only once its configured timeout has elapsed since the
\* call started, and does return it.
C8_SilentMemberTimesOut ==
    /\ [](SilentMemberScenario /\ join.runs > 0 =>
            /\ result.val = "nil"
            /\ join.state # "Ready"
            /\ pc = "returned" =>
                 /\ result.err = Err("join", "JoinTimeout")
                 /\ clock >= cfg.keyGen)
    /\ ((SilentMemberScenario /\ pc = "join") ~>
            (pc = "returned" /\ result.err = Err("join", "JoinTimeout")))

\* C8 witness: the third member has signalled, the second never does
C8_Witness ==
    /\ SilentMemberScenario
    /\ call.memberID = 1
    /\ call.silent = {2}
    /\ join.seen = {3}
    /\ pc = "returned"
    /\ result.err.cause = "JoinTimeout"

OneDeadline ==
    /\ join.runs > 0 => ctx.set /\ join.deadline = ctx.deadline
    /\ rounds.started => ctx.set /\ rounds.deadline = ctx.deadline

NoResume == [][pc = "returned" => pc' = "idle"]_vars

\* C9 as claimed: one deadline per call bounds the join wait and the rounds,
\* and a call whose deadline expired at a suspension point (waiting for
\* signals, or in the rounds) has returned KeyGenerationTimeout or
\* SigningTimeout and no result.
C9_ExpiryIsTimeoutError ==
    /\ OneDeadline
    /\ (join.state = "TimedOut" \/ rounds.phase = "expired") =>
          /\ pc = "returned"
          /\ result.val = "nil"
          /\ result.err.cause \in {"KeyGenerationTimeout", "SigningTimeout"}

\* C9: one deadline per call bounds the join wait and the rounds (the join
\* protocol and the rounds run under the deadline of the context created at
\* the start of the call); an expiry while waiting for signals ends the call
\* with JoinTimeout, an expiry during the rounds with KeyGenerationTimeout
\* (key generation) or SigningTimeout (signing); either way the call
\* returns no result and does not resume.
C9_ExpiryAbortsCall ==
    /\ []OneDeadline
    /\ [](join.state = "TimedOut" =>
            pc = "returned" /\ result = [val |-> "nil",
                                         err |-> Err("join", "JoinTimeout")])
    /\ [](rounds.phase = "expired" =>
            /\ pc = "returned"
            /\ result.val = "nil"
            /\ result.err.cause = TimeoutError)
    /\ [][(pc = "join" /\ join.state = "Waiting" /\ clock >= ctx.deadline) =>
            /\ pc' = "returned"
            /\ result' = [val |-> "nil", err |-> Err("join", "JoinTimeout")]]_vars
    /\ [][(pc = "rounds" /\ clock >= ctx.deadline) =>
            /\ pc' = "returned"
            /\ result'.val = "nil"
            /\ result'.err.cause = TimeoutError]_vars
    /\ NoResume

\* C9 witness: the deadline of a signing call passed in its second round
C9_Witness ==
    /\ rounds.phase = "expired"
    /\ rounds.n = 1
    /\ join.nsignals = 3
    /\ result.err.cause = "SigningTimeout"

\* C10: the deadline of a signing call is the start of the call plus the
\* signing timeout, whatever the key-generation timeout is.
C10_SigningDeadlineFromSigningTimeout ==
    (call.kind = "sign" /\ ctx.set) => ctx.deadline = cfg.signing

----------------------------------------------------------------------------
(* The network bridge: executions with their own bridge on one transport *)

\* the initial state of a call, while a component is checked on its own
CallIdle ==
    /\ cfg = [keyGen |-> keyGenerationTimeout, signing |-> signingTimeout]
    /\ clock = 0
    /\ pc = "idle"
    /\ call = NoCall
    /\ group = NoGroup
    /\ bridge = "none"
    /\ ctx = NoCtx
    /\ join = NoJoin
    /\ rounds = NoRounds
    /\ sent = <<>>
    /\ subscribed = FALSE
    /\ result = NoResult
    /\ signer = NoSigner

\* the executions that run on the transport
Execs == DOMAIN net.ex

\* every execution has a group id of its own
ExecGroupID(e) == <<"keep", e>>

BridgeGroupIDs == {ExecGroupID(e) : e \in 1..NumExecs}

MessageKinds == {"TSSProtocolMessage", "JoinMessage", "AnnounceMessage"}

\* the payload of a round message carries its round-sequence
Payloads == [seq : 1..MaxSeq]

RoundSeq(payload) == payload.seq

\* the envelopes the transport can hand to a bridge: any group tag, any
\* kind of message, senders inside and outside the group
InboundEnvelopes ==
    [group : BridgeGroupIDs, kind : MessageKinds, sender : 2..(MaxGroup + 1),
     payload : Payloads, isBroadcast : {TRUE}]

BroadcastTarget == [broadcast |-> TRUE, id |-> 0]

MemberTarget(id) == [broadcast |-> FALSE, id |-> id]

Targets(x) == {BroadcastTarget} \cup {MemberTarget(id) : id \in Peers(x)}

\* one execution: its groupInfo, its bridge (the messages accepted and
\* queued for the computation, the (sender, round-sequence) pairs seen, the
\* log of the envelopes discarded), the messages fed to its computation,
\* what the computation asked to send
NewExec(e) ==
    [groupID |-> ExecGroupID(e), memberID |-> 1,
     groupMemberIDs |-> IDs(MaxGroup), err |-> "",
     queue |-> <<>>, keys |-> {}, inbox |-> <<>>,
     narr |-> 0, nvalid |-> 0, dropped |-> <<>>, asked |-> <<>>]

\* mutant: every message type reports the tag of a protocol message
TypeAlwaysProtocolMessage(env) == TSSProtocolMessageType

\* func (m *TSSProtocolMessage) Type() string, (m *JoinMessage) Type(),
\* (m *AnnounceMessage) Type()
Type(env) ==
    CASE env.kind = "TSSProtocolMessage" -> TSSProtocolMessageType
      [] env.kind = "JoinMessage" -> JoinMessageType
      [] env.kind = "AnnounceMessage" -> AnnounceMessageType

\* mutant: the bridge takes the envelopes of every group
RoutedToEveryGroup(e, env) == TRUE

\* the bridge routes by group id
Routed(e, env) == env.group = net.ex[e].groupID

\* mutant: the sender is not looked up in the group
SenderInGroupUnchecked(e, env) == TRUE

SenderInGroup(e, env) == env.sender \in Range(net.ex[e].groupMemberIDs)

Key(env) == <<env.sender, RoundSeq(env.payload)>>

Duplicate(e, env) == net.forbidDup /\ Key(env) \in net.ex[e].keys

\* receive(): what the bridge passes on to the computation
Accepts(e, env) ==
    /\ Routed(e, env)
    /\ Type(env) = TSSProtocolMessageType
    /\ SenderInGroup(e, env)
    /\ ~Duplicate(e, env)

\* what the bridge logs when it discards an envelope
DropReason(e, env) ==
    IF ~Routed(e, env) THEN "other group"
    ELSE IF Type(env) # TSSProtocolMessageType THEN "not a protocol message"
    ELSE "UnexpectedMessage"

\* the messages the bridge of e has passed on, oldest first
Delivered(x) == x.inbox \o x.queue

\* an envelope that the bridge of e has to pass on, judged from what the
\* envelope is and from what was passed on before it
ValidFor(e, env) ==
    LET x == net.ex[e]
    IN  /\ env.group = x.groupID
        /\ env.kind = "TSSProtocolMessage"
        /\ env.sender \in Range(x.groupMemberIDs)
        /\ net.forbidDup =>
             ~\E i \in 1..Len(Delivered(x)) :
                 /\ Delivered(x)[i].sender = env.sender
                 /\ Delivered(x)[i].payload.seq = env.payload.seq

\* the transport hands an inbound envelope to the bridge of execution e:
\* the bridge queues it for the computation or discards it
BridgeArrive(e, env) ==
    /\ net.on
    /\ net.ops < net.budget
    /\ LET x == net.ex[e]
           msg == [group |-> env.group, kind |-> env.kind,
                   sender |-> env.sender, payload |-> env.payload,
                   isBroadcast |-> env.isBroadcast, stamp |-> x.narr + 1]
           y == [x EXCEPT !.narr = @ + 1,
                          !.nvalid = IF ValidFor(e, env) THEN @ + 1 ELSE @]
       IN  IF Accepts(e, env)
           THEN net' = [net EXCEPT !.ops = @ + 1,
                           !.ex[e] = [y EXCEPT !.queue = Append(@, msg),
                                               !.keys = @ \cup {Key(env)}]]
           ELSE net' = [net EXCEPT !.ops = @ + 1,
                           !.ex[e] = [y EXCEPT !.dropped = Append(@,
                                        [stamp |-> x.narr + 1,
                                         why |-> DropReason(e, env)])]]
    /\ UNCHANGED <<callVars, tasks, codec, keepBonding>>

\* mutant: the message queued last is fed first
NextQueuedLast(q) == Len(q)

\* the queued message that is fed to the computation next
NextQueued(q) == 1

Without(q, i) == SubSeq(q, 1, i - 1) \o SubSeq(q, i + 1, Len(q))

\* the bridge feeds a queued message to the computation of e
BridgeFeed(e) ==
    /\ net.on
    /\ net.ex[e].queue # <<>>
    /\ LET x == net.ex[e]
           i == NextQueued(x.queue)
       IN  net' = [net EXCEPT
                     !.ex[e] = [x EXCEPT !.inbox = Append(@, x.queue[i]),
                                         !.queue = Without(@, i)]]
    /\ UNCHANGED <<callVars, tasks, codec, keepBonding>>

\* mutant: every envelope is flagged as a broadcast
NewEnvelopeAlwaysBroadcast(x, payload, target) ==
    [kind |-> "TSSProtocolMessage", sender |-> x.memberID,
     payload |-> payload, isBroadcast |-> TRUE]

\* &TSSProtocolMessage{SenderID, Payload, IsBroadcast}
NewEnvelope(x, payload, target) ==
    [kind |-> "TSSProtocolMessage", sender |-> x.memberID,
     payload |-> payload, isBroadcast |-> target.broadcast]

\* what the transport is handed: broadcast(bytes) or send_to(id, bytes)
HandOff(x, env, target) ==
    [group |-> x.groupID,
     path |-> IF target.broadcast THEN "broadcast" ELSE "send_to",
     to |-> target.id, env |-> env]

\* send(message, target): the computation of e emits its next round
\* message (ok: whether the transport accepts it)
BridgeSend(e, target, ok) ==
    /\ net.on
    /\ net.ops < net.budget
    /\ net.ex[e].err = ""
    /\ Len(net.ex[e].asked) < MaxSeq
    /\ target \in Targets(net.ex[e])
    /\ LET x == net.ex[e]
           payload == [seq |-> Len(x.asked) + 1]
       IN  IF ok
           THEN net' = [net EXCEPT
                   !.ops = @ + 1,
                   !.ex[e].asked = Append(@, [payload |-> payload,
                                              target |-> target]),
                   !.transport = Append(@, HandOff(x,
                                   NewEnvelope(x, payload, target), target))]
           ELSE net' = [net EXCEPT !.ops = @ + 1,
                                   !.ex[e].err = "TransportError"]
    /\ UNCHANGED <<callVars, tasks, codec, keepBonding>>

\* n executions on the transport, before any envelope arrived or left
NewNet(n, dup, budget) ==
    [on |-> TRUE, forbidDup |-> dup, ops |-> 0, budget |-> budget,
     ex |-> [e \in 1..n |-> NewExec(e)], transport |-> <<>>]

\* one execution
BridgeInit ==
    /\ CallIdle
    /\ \E dup \in BOOLEAN : net = NewNet(1, dup, MaxBridgeOps)
    /\ tasks = NoTasks
    /\ codec = NoCodec
    /\ keepBonding = NoBonding

\* several executions at the same time
SharedInit ==
    /\ CallIdle
    /\ \E dup \in BOOLEAN : net = NewNet(NumExecs, dup, NumExecs)
    /\ tasks = NoTasks
    /\ codec = NoCodec
    /\ keepBonding = NoBonding

BridgeNext ==
    \/ \E e \in Execs, env \in InboundEnvelopes : BridgeArrive(e, env)
    \/ \E e \in Execs : BridgeFeed(e)
    \/ \E e \in Execs, id \in 0..MaxGroup, ok \in BOOLEAN :
          BridgeSend(e, IF id = 0 THEN BroadcastTarget ELSE MemberTarget(id),
                     ok)

BridgeSpec == BridgeInit /\ [][BridgeNext]_vars

SharedSpec == SharedInit /\ [][BridgeNext]_vars

----------------------------------------------------------------------------
(* The tasks of one execution: the computation, the task that drains the  *)
(* inbound messages and feeds them to it, the path that drains its        *)
(* outbound messages and hands them to the bridge                         *)

\* the channel the inbound messages are fed through
InChannel == "in"

\* mutant: the outbound messages go through the channel of the inbound ones
OutChannelShared == InChannel

\* the channel the computation emits its outbound messages on
OutChannel == "out"

TaskDone == tasks.consumed = MaxTaskMsgs /\ tasks.pending = 0

TaskRunning == tasks.on /\ ~tasks.expired /\ ~TaskDone

\* a peer's round message reaches the transport
TaskArrive ==
    /\ TaskRunning
    /\ tasks.toCome > 0
    /\ tasks' = [tasks EXCEPT !.toCome = @ - 1, !.arrived = @ + 1]
    /\ UNCHANGED <<callVars, net, codec, keepBonding>>

\* the companion task takes an inbound message and puts it on the channel to
\* the computation; it waits while the channel is full
InboundDrain ==
    /\ TaskRunning
    /\ tasks.arrived > 0
    /\ Len(tasks.chan[InChannel]) < ChanCap
    /\ tasks' = [tasks EXCEPT !.arrived = @ - 1,
                              !.chan[InChannel] = Append(@, "inbound")]
    /\ UNCHANGED <<callVars, net, codec, keepBonding>>

\* the computation takes the next inbound message; all but the last one
\* make it produce a message of the next round
CompConsume ==
    /\ TaskRunning
    /\ tasks.pending = 0
    /\ tasks.chan[InChannel] # <<>>
    /\ Head(tasks.chan[InChannel]) = "inbound"
    /\ tasks' = [tasks EXCEPT
                   !.chan[InChannel] = Tail(@),
                   !.consumed = @ + 1,
                   !.pending = IF tasks.consumed + 1 < MaxTaskMsgs
                               THEN 1 ELSE 0]
    /\ UNCHANGED <<callVars, net, codec, keepBonding>>

\* the computation emits the message it produced; it waits while the
\* channel is full
CompEmit ==
    /\ TaskRunning
    /\ tasks.pending > 0
    /\ Len(tasks.chan[OutChannel]) < ChanCap
    /\ tasks' = [tasks EXCEPT !.pending = @ - 1,
                              !.chan[OutChannel] = Append(@, "outbound")]
    /\ UNCHANGED <<callVars, net, codec, keepBonding>>

\* the outbound path takes an emitted message and hands it to the bridge
OutboundDrain ==
    /\ TaskRunning
    /\ tasks.chan[OutChannel] # <<>>
    /\ Head(tasks.chan[OutChannel]) = "outbound"
    /\ tasks' = [tasks EXCEPT !.chan[OutChannel] = Tail(@),
                              !.handed = @ + 1]
    /\ UNCHANGED <<callVars, net, codec, keepBonding>>

\* the deadline of the execution passes: its channels are closed
TaskExpire ==
    /\ TaskRunning
    /\ tasks' = [tasks EXCEPT !.expired = TRUE,
                              !.chan = [c \in {"in", "out"} |-> <<>>]]
    /\ UNCHANGED <<callVars, net, codec, keepBonding>>

\* a step of one of the three tasks
TaskStep == InboundDrain \/ CompConsume \/ CompEmit \/ OutboundDrain

\* the rounds start with the first message of the computation produced
TaskInit ==
    /\ CallIdle
    /\ net = NoNet
    /\ codec = NoCodec
    /\ keepBonding = NoBonding
    /\ tasks = [on |-> TRUE, toCome |-> MaxTaskMsgs, arrived |-> 0,
                chan |-> [c \in {"in", "out"} |-> <<>>],
                pending |-> 1, consumed |-> 0, handed |-> 0,
                expired |-> FALSE]

TaskNext ==
    \/ TaskArrive
    \/ InboundDrain
    \/ CompConsume
    \/ CompEmit
    \/ OutboundDrain
    \/ TaskExpire

TaskSpec == TaskInit /\ [][TaskNext]_vars

----------------------------------------------------------------------------
(* Marshaling, marshaling.go: the conversions *)

Abs(x) == IF x < 0 THEN -x ELSE x

\* int32(v) of an int v
ToInt32(v) ==
    LET m == v % (2 ^ Int32Bits)
    IN  IF m >= 2 ^ (Int32Bits - 1) THEN m - 2 ^ Int32Bits ELSE m

\* (*big.Int).Bytes(): the absolute value, big-endian, without leading zeros
RECURSIVE NatBytes(_)
NatBytes(n) == IF n = 0 THEN <<>> ELSE Append(NatBytes(n \div 256), n % 256)

BigIntBytes(x) == NatBytes(Abs(x))

\* mutant: the bytes are read with the lowest byte first
RECURSIVE SetBytesLittleEndian(_)
SetBytesLittleEndian(bs) ==
    IF bs = <<>> THEN 0 ELSE bs[1] + 256 * SetBytesLittleEndian(Tail(bs))

\* new(big.Int).SetBytes(bs): the bytes as a big-endian unsigned integer
RECURSIVE SetBytes(_)
SetBytes(bs) ==
    IF bs = <<>> THEN 0
    ELSE 256 * SetBytes(SubSeq(bs, 1, Len(bs) - 1)) + bs[Len(bs)]

\* (*big.Int).GobEncode(): a byte for version and sign, then the bytes
GobBigInt(x) == <<IF x < 0 THEN 3 ELSE 2>> \o BigIntBytes(x)

GobBigIntDecode(bs) ==
    IF bs = <<>> THEN 0
    ELSE IF bs[1] % 2 = 1 THEN -SetBytes(Tail(bs)) ELSE SetBytes(Tail(bs))

\* the point lies on the curve y^2 = x^3 + 7
IsOnCurve(pt) == (pt[2] * pt[2]) % CurveP = (pt[1] * pt[1] * pt[1] + 7) % CurveP

\* (*crypto.ECPoint).GobEncode(): each coordinate after its length
ECPointGobEncode(pt) ==
    LET x == GobBigInt(pt[1])
        y == GobBigInt(pt[2])
    IN  <<Len(x)>> \o x \o <<Len(y)>> \o y

\* (*crypto.ECPoint).GobDecode(buf): fails on a short buffer and on a point
\* that is not on the curve
ECPointGobDecode(buf) ==
    IF Len(buf) < 1 \/ Len(buf) < buf[1] + 2
    THEN [err |-> TRUE, pt |-> <<0, 0>>]
    ELSE LET lx == buf[1]
             ly == buf[lx + 2]
         IN  IF Len(buf) < lx + ly + 2
             THEN [err |-> TRUE, pt |-> <<0, 0>>]
             ELSE LET pt == <<GobBigIntDecode(SubSeq(buf, 2, lx + 1)),
                              GobBigIntDecode(SubSeq(buf, lx + 3, lx + ly + 2))>>
                  IN  [err |-> ~IsOnCurve(pt), pt |-> pt]

\* a field of a pb message: its name, its kind and its value
PbField(tag, kind, val) == [tag |-> tag, kind |-> kind, val |-> val]

\* the fields that are not written: those with the zero value of their kind
PbIsDefault(f) ==
    CASE f.kind = "bytes" -> f.val = <<>>
      [] f.kind = "repeated" -> f.val = <<>>
      [] f.kind = "string" -> f.val = ""
      [] f.kind = "int32" -> f.val = 0
      [] f.kind = "bool" -> f.val = FALSE
      [] f.kind = "message" -> FALSE

\* (&pb.X{...}).Marshal()
PbMarshal(fields) ==
    LET Written(f) == ~PbIsDefault(f)
    IN  SelectSeq(fields, Written)

\* pbX.Unmarshal(bytes) and pbX.GetField(): the value written, or the zero
\* value of the field
PbGet(wire, tag, default) ==
    LET at == {i \in 1..Len(wire) : wire[i].tag = tag}
    IN  IF at = {} THEN default ELSE wire[CHOOSE i \in at : TRUE].val

----------------------------------------------------------------------------
(* Marshaling, marshaling.go: ThresholdKey and ThresholdSigner *)

marshalBigIntSlice(bigInts) ==
    [i \in 1..Len(bigInts) |-> BigIntBytes(bigInts[i])]

unmarshalBigIntSlice(bytesSlice) ==
    [i \in 1..Len(bytesSlice) |-> SetBytes(bytesSlice[i])]

NewPaillierPK(bs) == [N |-> SetBytes(bs)]

PaillierPKBytes(pk) == BigIntBytes(pk.N)

\* the value of a ThresholdKey{} before anything is assigned to it
EmptyKey ==
    [LocalPreParams |->
         [PaillierSK |-> [PublicKey |-> [N |-> 0], LambdaN |-> 0, PhiN |-> 0],
          NTildei |-> 0, H1i |-> 0, H2i |-> 0],
     LocalSecrets |-> [Xi |-> 0, ShareID |-> 0],
     Ks |-> <<>>, NTildej |-> <<>>, H1j |-> <<>>, H2j |-> <<>>,
     BigXj |-> <<>>, PaillierPKs |-> <<>>, ECDSAPub |-> <<0, 0>>]

\* func (tk *ThresholdKey) Marshal() ([]byte, error)
ThresholdKeyMarshal(tk) ==
    LET sk == tk.LocalPreParams.PaillierSK
        localPreParams ==
            PbMarshal(<<
                PbField("PaillierSK", "message", PbMarshal(<<
                    PbField("PublicKey", "bytes", BigIntBytes(sk.PublicKey.N)),
                    PbField("LambdaN", "bytes", BigIntBytes(sk.LambdaN)),
                    PbField("PhiN", "bytes", BigIntBytes(sk.PhiN))>>)),
                PbField("NTilde", "bytes", BigIntBytes(tk.LocalPreParams.NTildei)),
                PbField("H1I", "bytes", BigIntBytes(tk.LocalPreParams.H1i)),
                PbField("H2I", "bytes", BigIntBytes(tk.LocalPreParams.H2i))>>)
        localSecrets ==
            PbMarshal(<<
                PbField("Xi", "bytes", BigIntBytes(tk.LocalSecrets.Xi)),
                PbField("ShareID", "bytes", BigIntBytes(tk.LocalSecrets.ShareID))>>)
    IN  PbMarshal(<<
            PbField("LocalPreParams", "message", localPreParams),
            PbField("LocalSecrets", "message", localSecrets),
            PbField("Ks", "repeated", marshalBigIntSlice(tk.Ks)),
            PbField("NTildej", "repeated", marshalBigIntSlice(tk.NTildej)),
            PbField("H1J", "repeated", marshalBigIntSlice(tk.H1j)),
            PbField("H2J", "repeated", marshalBigIntSlice(tk.H2j)),
            PbField("BigXj", "repeated", [i \in 1..Len(tk.BigXj) |->
                        ECPointGobEncode(tk.BigXj[i])]),
            PbField("PaillierPKs", "repeated",
                    [i \in 1..Len(tk.PaillierPKs) |->
                        PaillierPKBytes(tk.PaillierPKs[i])]),
            PbField("EcdsaPub", "bytes", ECPointGobEncode(tk.ECDSAPub))>>)

\* func (tk *ThresholdKey) Unmarshal(bytes []byte) error: the error and the
\* key as far as it was assigned
ThresholdKeyUnmarshal(bytes) ==
    LET pre == PbGet(bytes, "LocalPreParams", <<>>)
        sk == PbGet(pre, "PaillierSK", <<>>)
        sec == PbGet(bytes, "LocalSecrets", <<>>)
        k1 == [EmptyKey EXCEPT
                 !.LocalPreParams =
                     [PaillierSK |->
                          [PublicKey |-> [N |-> SetBytes(PbGet(sk, "PublicKey", <<>>))],
                           LambdaN |-> SetBytes(PbGet(sk, "LambdaN", <<>>)),
                           PhiN |-> SetBytes(PbGet(sk, "PhiN", <<>>))],
                      NTildei |-> SetBytes(PbGet(pre, "NTilde", <<>>)),
                      H1i |-> SetBytes(PbGet(pre, "H1I", <<>>)),
                      H2i |-> SetBytes(PbGet(pre, "H2I", <<>>))],
                 !.LocalSecrets =
                     [Xi |-> SetBytes(PbGet(sec, "Xi", <<>>)),
                      ShareID |-> SetBytes(PbGet(sec, "ShareID", <<>>))]]
        pbBigXj == PbGet(bytes, "BigXj", <<>>)
        bigXj == [i \in 1..Len(pbBigXj) |-> ECPointGobDecode(pbBigXj[i])]
        pbPaillierPKs == PbGet(bytes, "PaillierPKs", <<>>)
        bad == {i \in 1..Len(bigXj) : bigXj[i].err}
        pub == ECPointGobDecode(PbGet(bytes, "EcdsaPub", <<>>))
        k2 == [k1 EXCEPT
                 !.BigXj = [i \in 1..Len(bigXj) |->
                               IF \E j \in bad : j <= i THEN <<0, 0>>
                               ELSE bigXj[i].pt]]
        k3 == [k2 EXCEPT
                 !.PaillierPKs = [i \in 1..Len(pbPaillierPKs) |->
                                     NewPaillierPK(pbPaillierPKs[i])]]
    IN  IF bad # {} THEN [err |-> "failed to decode BigXj", key |-> k2]
        ELSE IF pub.err THEN [err |-> "failed to decode ECDSAPub", key |-> k3]
        ELSE [err |-> "",
              key |-> [k3 EXCEPT
                         !.ECDSAPub = pub.pt,
                         !.Ks = unmarshalBigIntSlice(PbGet(bytes, "Ks", <<>>)),
                         !.NTildej = unmarshalBigIntSlice(PbGet(bytes, "NTildej", <<>>)),
                         !.H1j = unmarshalBigIntSlice(PbGet(bytes, "H1J", <<>>)),
                         !.H2j = unmarshalBigIntSlice(PbGet(bytes, "H2J", <<>>))]]

\* func (s *ThresholdSigner) Marshal() ([]byte, error)
ThresholdSignerMarshal(s) ==
    LET keygenData == ThresholdKeyMarshal(s.thresholdKey)
        g == s.groupInfo
        pbGroup == PbMarshal(<<
            PbField("GroupID", "string", g.groupID),
            PbField("MemberID", "bytes", g.memberID),
            PbField("GroupMemberIDs", "repeated", g.groupMemberIDs),
            PbField("DishonestThreshold", "int32",
                    ToInt32(g.dishonestThreshold))>>)
    IN  PbMarshal(<<PbField("GroupInfo", "message", pbGroup),
                    PbField("ThresholdKey", "bytes", keygenData)>>)

\* mutant: the group info is assigned before the threshold key is decoded
ThresholdSignerUnmarshalGroupFirst(s, bytes) ==
    LET k == ThresholdKeyUnmarshal(PbGet(bytes, "ThresholdKey", <<>>))
        pbGroupInfo == PbGet(bytes, "GroupInfo", <<>>)
    IN  [err |-> k.err,
         signer |->
           [groupInfo |->
              [groupID |-> PbGet(pbGroupInfo, "GroupID", ""),
               memberID |-> PbGet(pbGroupInfo, "MemberID", <<>>),
               groupMemberIDs |-> PbGet(pbGroupInfo, "GroupMemberIDs", <<>>),
               dishonestThreshold |->
                   PbGet(pbGroupInfo, "DishonestThreshold", 0)],
            thresholdKey |-> k.key]]

\* func (s *ThresholdSigner) Unmarshal(bytes []byte) error: the error and
\* the receiver s after the call
ThresholdSignerUnmarshal(s, bytes) ==
    LET k == ThresholdKeyUnmarshal(PbGet(bytes, "ThresholdKey", <<>>))
        pbGroupInfo == PbGet(bytes, "GroupInfo", <<>>)
    IN  IF k.err # ""
        THEN [err |-> k.err, signer |-> [s EXCEPT !.thresholdKey = k.key]]
        ELSE [err |-> "",
              signer |->
                [groupInfo |->
                   [groupID |-> PbGet(pbGroupInfo, "GroupID", ""),
                    memberID |-> PbGet(pbGroupInfo, "MemberID", <<>>),
                    groupMemberIDs |-> PbGet(pbGroupInfo, "GroupMemberIDs", <<>>),
                    dishonestThreshold |->
                        PbGet(pbGroupInfo, "DishonestThreshold", 0)],
                 thresholdKey |-> k.key]]

\* the receiver of Unmarshal: &ThresholdSigner{}
EmptySigner ==
    [groupInfo |-> [groupID |-> "", memberID |-> <<>>,
                    groupMemberIDs |-> <<>>, dishonestThreshold |-> 0],
     thresholdKey |-> EmptyKey]

----------------------------------------------------------------------------
(* Marshaling: the signers that go through Marshal and Unmarshal *)

\* a member id is a byte string
MemberIDBytes(i) == <<i>>

SeqFrom(n, first) == [i \in 1..n |-> first + i]

\* the large integers of the signers: zero, one byte, more than one byte,
\* negative
BigInts == {-1, 0, 1, 255, 256, 65536}

BigIntBases == {0, 250}

CurvePoints == {<<2, 2>>, <<3, 1>>, <<2, 3>>}

CodecThresholds ==
    {-1, 0, 1, MaxGroup - 1, 2 ^ (Int32Bits - 1) - 1, 2 ^ (Int32Bits - 1)}

\* a signer of a group of n members: the secret share xi, the other large
\* integers counted up from base, the curve points pt
NewSigner(n, mid, t, xi, base, pt) ==
    [groupInfo |->
         [groupID |-> "keep", memberID |-> MemberIDBytes(mid),
          groupMemberIDs |-> [i \in 1..n |-> MemberIDBytes(i)],
          dishonestThreshold |-> t],
     thresholdKey |->
         [LocalPreParams |->
              [PaillierSK |-> [PublicKey |-> [N |-> base + 1],
                               LambdaN |-> base + 2, PhiN |-> base + 3],
               NTildei |-> base + 4, H1i |-> base + 5, H2i |-> base + 6],
          LocalSecrets |-> [Xi |-> xi, ShareID |-> base + 7],
          Ks |-> SeqFrom(n, base + 10),
          NTildej |-> SeqFrom(n, base + 20),
          H1j |-> SeqFrom(n, base + 30),
          H2j |-> SeqFrom(n, base + 40),
          BigXj |-> [i \in 1..n |-> pt],
          PaillierPKs |-> [i \in 1..n |-> [N |-> base + 50 + i]],
          ECDSAPub |-> pt]]

\* the group info is valid, the large integers are not negative and the
\* points are on the curve
ValidSigner(x) ==
    LET g == x.groupInfo
        k == x.thresholdKey
    IN  /\ Len(g.groupMemberIDs) >= 2
        /\ g.memberID \in Range(g.groupMemberIDs)
        /\ 0 <= g.dishonestThreshold
        /\ g.dishonestThreshold < Len(g.groupMemberIDs)
        /\ k.LocalSecrets.Xi >= 0
        /\ IsOnCurve(k.ECDSAPub)
        /\ \A i \in 1..Len(k.BigXj) : IsOnCurve(k.BigXj[i])

\* bytes, err := x.Marshal()
CodecMarshal ==
    /\ codec.on
    /\ codec.pc = "start"
    /\ codec' = [codec EXCEPT !.pc = "marshalled",
                              !.bytes = ThresholdSignerMarshal(codec.x)]
    /\ UNCHANGED <<callVars, net, tasks, keepBonding>>

\* y := &ThresholdSigner{}; err := y.Unmarshal(bytes)
CodecUnmarshal ==
    /\ codec.on
    /\ codec.pc = "marshalled"
    /\ LET r == ThresholdSignerUnmarshal(EmptySigner, codec.bytes)
       IN  codec' = [codec EXCEPT !.pc = "returned", !.y = r.signer,
                                  !.err = r.err]
    /\ UNCHANGED <<callVars, net, tasks, keepBonding>>

CodecInit ==
    /\ CallIdle
    /\ net = NoNet
    /\ tasks = NoTasks
    /\ keepBonding = NoBonding
    /\ \E n \in 0..MaxGroup, t \in CodecThresholds, xi \in BigInts,
          base \in BigIntBases, pt \in CurvePoints :
         \E mid \in 1..(IF n = 0 THEN 1 ELSE n) :
             codec = [on |-> TRUE, pc |-> "start",
                      x |-> NewSigner(n, mid, t, xi, base, pt),
                      bytes |-> <<>>, y |-> EmptySigner, err |-> ""]

CodecNext ==
    \/ CodecMarshal
    \/ CodecUnmarshal

CodecSpec == CodecInit /\ [][CodecNext]_vars

----------------------------------------------------------------------------
(* Marshaling, marshaling.go: the three network messages *)

\* a variant that loses the broadcast flag
TSSProtocolMessageUnmarshalDroppingFlag(bytes) ==
    [SenderID |-> PbGet(bytes, "SenderID", <<>>),
     Payload |-> PbGet(bytes, "Payload", <<>>),
     IsBroadcast |-> FALSE]

\* func (m *TSSProtocolMessage) Marshal() ([]byte, error)
TSSProtocolMessageMarshal(m) ==
    PbMarshal(<<PbField("SenderID", "bytes", m.SenderID),
                PbField("Payload", "bytes", m.Payload),
                PbField("IsBroadcast", "bool", m.IsBroadcast)>>)

\* func (m *TSSProtocolMessage) Unmarshal(bytes []byte) error
TSSProtocolMessageUnmarshal(bytes) ==
    [SenderID |-> PbGet(bytes, "SenderID", <<>>),
     Payload |-> PbGet(bytes, "Payload", <<>>),
     IsBroadcast |-> PbGet(bytes, "IsBroadcast", FALSE)]

\* func (m *JoinMessage) Marshal() ([]byte, error)
JoinMessageMarshal(m) ==
    PbMarshal(<<PbField("SenderID", "bytes", m.SenderID)>>)

\* func (m *JoinMessage) Unmarshal(bytes []byte) error
JoinMessageUnmarshal(bytes) ==
    [SenderID |-> PbGet(bytes, "SenderID", <<>>)]

\* the announce message carries the sender id only; its encoding is the one
\* of the join message
AnnounceMessageMarshal(m) ==
    PbMarshal(<<PbField("SenderID", "bytes", m.SenderID)>>)

AnnounceMessageUnmarshal(bytes) ==
    [SenderID |-> PbGet(bytes, "SenderID", <<>>)]

\* the messages that are marshalled: member ids and payloads with and
\* without bytes, with leading zero bytes
MessageSenderIDs == {<<>>, <<1>>, <<2>>, <<0, 1>>}
PayloadBytes == {<<>>, <<0>>, <<7>>, <<0, 0>>, <<1, 2>>}

Messages ==
    {[type |-> TSSProtocolMessageType,
      m |-> [SenderID |-> id, Payload |-> p, IsBroadcast |-> b]] :
         id \in MessageSenderIDs, p \in PayloadBytes, b \in BOOLEAN}
    \cup {[type |-> t, m |-> [SenderID |-> id]] :
             t \in {JoinMessageType, AnnounceMessageType},
             id \in MessageSenderIDs}

\* bytes, err := m.Marshal()
MessageMarshal ==
    /\ codec.on
    /\ codec.pc = "message"
    /\ codec' = [codec EXCEPT
           !.pc = "message marshalled",
           !.bytes = CASE codec.x.type = TSSProtocolMessageType ->
                              TSSProtocolMessageMarshal(codec.x.m)
                       [] codec.x.type = JoinMessageType ->
                              JoinMessageMarshal(codec.x.m)
                       [] codec.x.type = AnnounceMessageType ->
                              AnnounceMessageMarshal(codec.x.m)]
    /\ UNCHANGED <<callVars, net, tasks, keepBonding>>

\* y := &M{}; err := y.Unmarshal(bytes)
MessageUnmarshal ==
    /\ codec.on
    /\ codec.pc = "message marshalled"
    /\ codec' = [codec EXCEPT
           !.pc = "message returned",
           !.y = CASE codec.x.type = TSSProtocolMessageType ->
                          TSSProtocolMessageUnmarshal(codec.bytes)
                   [] codec.x.type = JoinMessageType ->
                          JoinMessageUnmarshal(codec.bytes)
                   [] codec.x.type = AnnounceMessageType ->
                          AnnounceMessageUnmarshal(codec.bytes)]
    /\ UNCHANGED <<callVars, net, tasks, keepBonding>>

MessageInit ==
    /\ CallIdle
    /\ net = NoNet
    /\ tasks = NoTasks
    /\ keepBonding = NoBonding
    /\ \E x \in Messages :
         codec = [on |-> TRUE, pc |-> "message", x |-> x, bytes |-> <<>>,
                  y |-> <<>>, err |-> ""]

MessageNext ==
    \/ MessageMarshal
    \/ MessageUnmarshal

MessageSpec == MessageInit /\ [][MessageNext]_vars

----------------------------------------------------------------------------
(* KeepBonding, as its tests use it: solidity/contracts/ECDSAKeepFactory.sol *)

\* accounts[1] and accounts[2]: the operators, each its own authorizer
Operators == {1, 2}

\* accounts[2] and accounts[3]: the holders of bonds
Holders == {2, 3}

References == {777, 888}

\* accounts[4]: the operator contract the registry approves
bondCreator == 4

\* accounts[5]
sortitionPool == 5

\* TestEtherReceiver: takes no transfer once setShouldFail(true) was called
etherReceiver == 6

\* accounts[3] and the ether receiver
Destinations == {3, etherReceiver}

\* a call that went through, and a call that reverted with a message: a
\* revert leaves the state of the contract as it was
Done(K) == [st |-> K, revert |-> ""]
Reverted(K, msg) == [st |-> K, revert |-> msg]

TransferFails(K, destination) == destination = etherReceiver /\ K.shouldFail

\* mutant: the sortition pool is not looked at
availableUnbondedValueAnyPool(K, operator, creator, pool) ==
    IF <<operator, creator>> \in K.staking
    THEN K.unbonded[operator]
    ELSE 0

availableUnbondedValue(K, operator, creator, pool) ==
    IF <<operator, creator>> \in K.staking /\ <<operator, pool>> \in K.pools
    THEN K.unbonded[operator]
    ELSE 0

\* mutant: the value is taken and not credited to the operator
depositUncredited(K, operator, value) ==
    Done([K EXCEPT !.deposited = @ + value])

\* keepBonding.deposit(operator, {value: value})
deposit(K, operator, value) ==
    Done([K EXCEPT !.unbonded[operator] = @ + value, !.deposited = @ + value])

\* mutant: the unbonded value is reduced before the transfer and stays so
withdrawKeepingDebit(K, sender, amount, destination) ==
    IF amount > K.unbonded[sender]
    THEN Reverted(K, "Insufficient unbonded value")
    ELSE IF TransferFails(K, destination)
    THEN Reverted([K EXCEPT !.unbonded[sender] = @ - amount],
                  "Transfer failed")
    ELSE Done([K EXCEPT !.unbonded[sender] = @ - amount,
                        !.balance[destination] = @ + amount,
                        !.paid = @ + amount])

\* keepBonding.withdraw(amount, destination, {from: sender})
withdraw(K, sender, amount, destination) ==
    IF amount > K.unbonded[sender]
    THEN Reverted(K, "Insufficient unbonded value")
    ELSE IF TransferFails(K, destination)
    THEN Reverted(K, "Transfer failed")
    ELSE Done([K EXCEPT !.unbonded[sender] = @ - amount,
                        !.balance[destination] = @ + amount,
                        !.paid = @ + amount])

\* mutant: a bond is added to the bond that is there
createBondOverExisting(K, sender, operator, holder, referenceID, amount, pool) ==
    IF availableUnbondedValue(K, operator, sender, pool) < amount
    THEN Reverted(K, "Insufficient unbonded value")
    ELSE Done([K EXCEPT !.unbonded[operator] = @ - amount,
                        !.bonds[<<operator, holder, referenceID>>] = @ + amount])

\* keepBonding.createBond(operator, holder, referenceID, amount, pool,
\* {from: sender})
createBond(K, sender, operator, holder, referenceID, amount, pool) ==
    IF availableUnbondedValue(K, operator, sender, pool) < amount
    THEN Reverted(K, "Insufficient unbonded value")
    ELSE IF K.bonds[<<operator, holder, referenceID>>] # 0
    THEN Reverted(K, "Reference ID not unique for holder and operator")
    ELSE Done([K EXCEPT !.unbonded[operator] = @ - amount,
                        !.bonds[<<operator, holder, referenceID>>] = @ + amount])

\* mutant: the bond of the target key is overwritten
reassignBondOverExisting(K, sender, operator, referenceID, newHolder, newReferenceID) ==
    LET bond == K.bonds[<<operator, sender, referenceID>>]
    IN  IF bond = 0
        THEN Reverted(K, "Bond not found")
        ELSE Done([K EXCEPT
                 !.bonds = [[@ EXCEPT ![<<operator, sender, referenceID>>] = 0]
                               EXCEPT ![<<operator, newHolder, newReferenceID>>]
                                          = bond]])

\* keepBonding.reassignBond(operator, referenceID, newHolder, newReferenceID,
\* {from: sender})
reassignBond(K, sender, operator, referenceID, newHolder, newReferenceID) ==
    LET bond == K.bonds[<<operator, sender, referenceID>>]
    IN  IF bond = 0
        THEN Reverted(K, "Bond not found")
        ELSE IF K.bonds[<<operator, newHolder, newReferenceID>>] # 0
        THEN Reverted(K, "Reference ID not unique for holder and operator")
        ELSE Done([K EXCEPT
                 !.bonds = [[@ EXCEPT ![<<operator, sender, referenceID>>] = 0]
                               EXCEPT ![<<operator, newHolder, newReferenceID>>]
                                          = bond]])

\* mutant: the bond is dropped and nothing goes back to the operator
freeBondBurning(K, sender, operator, referenceID) ==
    LET bond == K.bonds[<<operator, sender, referenceID>>]
    IN  IF bond = 0
        THEN Reverted(K, "Bond not found")
        ELSE Done([K EXCEPT !.bonds[<<operator, sender, referenceID>>] = 0])

\* keepBonding.freeBond(operator, referenceID, {from: sender})
freeBond(K, sender, operator, referenceID) ==
    LET bond == K.bonds[<<operator, sender, referenceID>>]
    IN  IF bond = 0
        THEN Reverted(K, "Bond not found")
        ELSE Done([K EXCEPT !.bonds[<<operator, sender, referenceID>>] = 0,
                            !.unbonded[operator] = @ + bond])

\* mutant: the whole bond is seized whatever the amount asked for
seizeBondWhole(K, sender, operator, referenceID, amount, destination) ==
    LET bond == K.bonds[<<operator, sender, referenceID>>]
    IN  IF amount = 0
        THEN Reverted(K, "Requested amount should be greater than zero")
        ELSE IF amount > bond
        THEN Reverted(K, "Requested amount is greater than the bond")
        ELSE IF TransferFails(K, destination)
        THEN Reverted(K, "Transfer failed")
        ELSE Done([K EXCEPT !.bonds[<<operator, sender, referenceID>>] = 0,
                            !.balance[destination] = @ + bond,
                            !.paid = @ + bond])

\* keepBonding.seizeBond(operator, referenceID, amount, destination,
\* {from: sender})
seizeBond(K, sender, operator, referenceID, amount, destination) ==
    LET bond == K.bonds[<<operator, sender, referenceID>>]
    IN  IF amount = 0
        THEN Reverted(K, "Requested amount should be greater than zero")
        ELSE IF amount > bond
        THEN Reverted(K, "Requested amount is greater than the bond")
        ELSE IF TransferFails(K, destination)
        THEN Reverted(K, "Transfer failed")
        ELSE Done([K EXCEPT !.bonds[<<operator, sender, referenceID>>] = @ - amount,
                            !.balance[destination] = @ + amount,
                            !.paid = @ + amount])

\* keepBonding.authorizeSortitionPoolContract(operator, pool, {from: sender});
\* the authorizer of an operator of these tests is the operator
authorizeSortitionPoolContract(K, sender, operator, pool) ==
    IF sender # operator
    THEN Reverted(K, "Not authorized")
    ELSE Done([K EXCEPT !.pools = @ \cup {<<operator, pool>>}])

\* the contract takes the outcome of a call: a call that went through leaves
\* its state, and its name in last; a call that reverted leaves no trace
Apply(fn, r) ==
    /\ keepBonding.on
    /\ keepBonding' = IF r.revert = "" THEN [r.st EXCEPT !.last = fn]
                      ELSE keepBonding
    /\ UNCHANGED <<callVars, net, tasks, codec>>

\* KeepBonding.new(registry.address, tokenStaking.address)
BondInit ==
    /\ CallIdle
    /\ net = NoNet
    /\ tasks = NoTasks
    /\ codec = NoCodec
    /\ keepBonding =
           [on |-> TRUE,
            unbonded |-> [o \in Operators |-> 0],
            bonds |-> [k \in Operators \X Holders \X References |-> 0],
            balance |-> [d \in Destinations |-> 0],
            pools |-> {},
            staking |-> {},
            shouldFail |-> FALSE,
            deposited |-> 0,
            paid |-> 0,
            last |-> "new"]

BondNext ==
    LET K == keepBonding
        Amounts == 0..(MaxDeposit + 1)
    IN  \/ \E o \in Operators, v \in 1..MaxDeposit :
             /\ K.deposited + v <= MaxDeposit
             /\ Apply("deposit", deposit(K, o, v))
        \/ \E o \in Operators, a \in Amounts, d \in Destinations :
             Apply("withdraw", withdraw(K, o, a, d))
        \/ \E c \in {bondCreator, 0}, o \in Operators, h \in Holders,
              r \in References, a \in Amounts, p \in {sortitionPool, 0} :
             Apply("createBond", createBond(K, c, o, h, r, a, p))
        \/ \E s \in Holders, o \in Operators, r \in References,
              h \in Holders, r2 \in References :
             Apply("reassignBond", reassignBond(K, s, o, r, h, r2))
        \/ \E s \in Holders, o \in Operators, r \in References :
             Apply("freeBond", freeBond(K, s, o, r))
        \/ \E s \in Holders, o \in Operators, r \in References,
              a \in Amounts, d \in Destinations :
             Apply("seizeBond", seizeBond(K, s, o, r, a, d))
        \/ \E s \in Operators, o \in Operators :
             Apply("authorizeSortitionPoolContract",
                   authorizeSortitionPoolContract(K, s, o, sortitionPool))
        \/ \E o \in Operators :
             \* tokenStaking.authorizeOperatorContract(operator, bondCreator)
             Apply("authorizeOperatorContract",
                   Done([K EXCEPT !.staking = @ \cup {<<o, bondCreator>>}]))
        \/ \* etherReceiver.setShouldFail(true)
           Apply("setShouldFail", Done([K EXCEPT !.shouldFail = TRUE]))

BondSpec == BondInit /\ [][BondNext]_vars

----------------------------------------------------------------------------
(* Signing with a signer that Unmarshal made from stored bytes *)

\* s.groupInfo = &groupInfo{...} of ThresholdSigner.Unmarshal: the group info
\* is what the bytes say, with any number of members and any threshold
StoredGroupInfos ==
    {[groupID |-> "keep", memberID |-> 1, groupMemberIDs |-> IDs(n),
      dishonestThreshold |-> t] : n \in 1..2, t \in {1, 2}}

\* the member starts with a signer it has read back
StoredInit ==
    /\ cfg \in [keyGen : TimeoutChoices(keyGenerationTimeout),
                 signing : TimeoutChoices(signingTimeout)]
    /\ clock = 0
    /\ pc = "idle"
    /\ call = NoCall
    /\ group = NoGroup
    /\ bridge = "none"
    /\ ctx = NoCtx
    /\ join = NoJoin
    /\ rounds = NoRounds
    /\ sent = <<>>
    /\ subscribed = FALSE
    /\ result = NoResult
    /\ \E g \in StoredGroupInfos :
           signer = [present |-> TRUE, groupInfo |-> g, thresholdKey |-> "key"]
    /\ net = NoNet
    /\ tasks = NoTasks
    /\ codec = NoCodec
    /\ keepBonding = NoBonding

\* and signs with it
StoredNext ==
    \/ CallSign
    \/ \E ok \in BOOLEAN : InitializeSigning(ok)
    \/ JoinAnnounce
    \/ JoinListen
    \/ \E p \in AllIDs, kind \in {JoinMessageType, AnnounceMessageType} :
          JoinObserve(p, kind)
    \/ JoinExpire
    \/ \E b \in BOOLEAN, ok \in BOOLEAN : RoundSend(b, ok)
    \/ RoundReceive
    \/ RoundFail
    \/ RoundExpire
    \/ Finish
    \/ Tick

StoredSpec == StoredInit /\ [][StoredNext]_vars

----------------------------------------------------------------------------
\* C12: in a group of three members with threshold 1, a member that signs
\* a 32-byte digest together with one other member, the third member
\* taking no part, obtains a signature: when its call has returned after
\* entering the join protocol, the call has returned a signature.
SignQuorumScenario ==
    /\ call.kind = "sign"
    /\ Len(group.groupMemberIDs) = 3
    /\ group.dishonestThreshold = 1
    /\ call.digestLen = HashLen
    /\ Cardinality(call.silent) = 1
    /\ bridge # "none"

C12_QuorumSigns ==
    (SignQuorumScenario /\ pc = "returned" /\ join.runs > 0)
        => result.val = "signature"

----------------------------------------------------------------------------
\* C19: whenever a call returns an error after its network bridge was
\* created, the bridge is closed and the call is subscribed to nothing; and
\* the step on which a call returns leaves the messages it has sent as they
\* were.
C19_ErrorExitTearsDownBridge ==
    /\ [](pc = "returned" /\ result.err # NoErr /\ ctx.set
             => bridge = "closed" /\ ~subscribed)
    /\ [][(pc # "idle" /\ pc' = "returned") => sent' = sent]_vars

\* a call returned a failure of the rounds after sending messages and
\* subscribing, and its bridge is closed
C19_Witness ==
    /\ pc = "returned"
    /\ result.err.wrap \in {"generate", "sign"}
    /\ sent # <<>>
    /\ join.state = "Ready"
    /\ bridge = "closed"
    /\ ~subscribed

----------------------------------------------------------------------------
(* Properties of the network bridge *)

\* every envelope that had to be passed on was passed on
ValidEnvelopesDelivered ==
    \A e \in Execs : Len(Delivered(net.ex[e])) = net.ex[e].nvalid

\* a message was passed on by the bridge of e after the bridge had
\* discarded an envelope for the reason why
DeliveredAfterDiscard(e, why) ==
    LET x == net.ex[e]
    IN  \E i \in 1..Len(x.dropped), j \in 1..Len(Delivered(x)) :
            /\ x.dropped[i].why = why
            /\ Delivered(x)[j].stamp > x.dropped[i].stamp

\* C13: the bridge passes on no protocol message of a sender outside
\* group_member_ids and, when duplicates are forbidden, no second message
\* with the same sender and round-sequence; the envelopes it discards do not
\* keep a valid envelope from being passed on.
C13_OutsidersAndDuplicatesDiscarded ==
    net.on =>
      /\ \A e \in Execs :
           LET x == net.ex[e]
               d == Delivered(x)
           IN  /\ \A i \in 1..Len(d) : d[i].sender \in Range(x.groupMemberIDs)
               /\ net.forbidDup =>
                    \A i, j \in 1..Len(d) :
                        (d[i].sender = d[j].sender
                           /\ RoundSeq(d[i].payload) = RoundSeq(d[j].payload))
                        => i = j
      /\ ValidEnvelopesDelivered

\* an envelope was discarded as unexpected and a later one was passed on
C13_Witness ==
    /\ net.on
    /\ net.forbidDup
    /\ \E e \in Execs : DeliveredAfterDiscard(e, "UnexpectedMessage")

\* C14: every message the bridge passes on to the computation is a
\* protocol message; a join or announce envelope is dropped, the drop puts no
\* error on the execution, and the protocol messages that arrive later are
\* passed on.
C14_OnlyProtocolMessagesDelivered ==
    /\ [](net.on =>
            /\ \A e \in Execs :
                 \A i \in 1..Len(Delivered(net.ex[e])) :
                     Delivered(net.ex[e])[i].kind = "TSSProtocolMessage"
            /\ ValidEnvelopesDelivered)
    /\ [][net.on =>
            \A e \in Execs :
                net'.ex[e].narr # net.ex[e].narr
                    => net'.ex[e].err = net.ex[e].err]_vars

\* a join or announce envelope was dropped and a later message passed on
C14_Witness ==
    /\ net.on
    /\ \E e \in Execs :
         /\ DeliveredAfterDiscard(e, "not a protocol message")
         /\ net.ex[e].err = ""

\* C15: the messages of one sender reach the computation in the order in
\* which the transport handed that sender's envelopes to the bridge.
C15_PerSenderOrderPreserved ==
    net.on =>
      \A e \in Execs :
          LET d == net.ex[e].inbox
          IN  \A i, j \in 1..Len(d) :
                  (i < j /\ d[i].sender = d[j].sender)
                      => d[i].stamp < d[j].stamp

\* two messages of one sender were fed to the computation, with a message
\* of another sender between them
C15_Witness ==
    /\ net.on
    /\ \E e \in Execs :
         LET d == net.ex[e].inbox
         IN  /\ Len(d) = 3
             /\ d[1].sender = d[3].sender
             /\ d[2].sender # d[1].sender

\* C16: executions with distinct group ids on one transport: the messages
\* passed on to the computation of an execution carry its own group id, and
\* a step of one execution leaves the state of every other execution as it
\* was.
C16_NoCrossDelivery ==
    /\ [](net.on =>
            /\ \A e, f \in Execs :
                   e # f => net.ex[e].groupID # net.ex[f].groupID
            /\ \A e \in Execs :
                 \A i \in 1..Len(Delivered(net.ex[e])) :
                     Delivered(net.ex[e])[i].group = net.ex[e].groupID)
    /\ [][net.on =>
            \A e, f \in Execs :
                (e # f /\ net'.ex[e] # net.ex[e]) => net'.ex[f] = net.ex[f]]_vars

\* the transport handed an envelope of the group of one execution to the
\* bridge of another one, which discarded it, and to the bridge of its own
\* execution, whose computation was fed the message
C16_Witness ==
    /\ net.on
    /\ \E e, f \in Execs :
         /\ e # f
         /\ \E i \in 1..Len(net.ex[e].dropped) :
                net.ex[e].dropped[i].why = "other group"
         /\ net.ex[e].inbox = <<>>
         /\ net.ex[f].inbox # <<>>

\* what execution e handed to the transport, oldest first
FromGroup(h) == h.group

Handed(e) ==
    LET Mine(h) == FromGroup(h) = net.ex[e].groupID
    IN  SelectSeq(net.transport, Mine)

\* C17: what the bridge hands to the transport for send(message, target)
\* carries the local member id, the payload as given and the broadcast flag
\* exactly for the target Broadcast; it goes to the broadcast path for
\* Broadcast and to send_to of that member for Member(id).
C17_EnvelopeAsAsked ==
    net.on =>
      \A e \in Execs :
          LET x == net.ex[e]
              h == Handed(e)
          IN  /\ Len(h) = Len(x.asked)
              /\ \A i \in 1..Len(h) :
                   /\ Type(h[i].env) = TSSProtocolMessageType
                   /\ h[i].env.sender = x.memberID
                   /\ h[i].env.payload = x.asked[i].payload
                   /\ h[i].env.isBroadcast = x.asked[i].target.broadcast
                   /\ x.asked[i].target.broadcast
                        => (h[i].path = "broadcast" /\ h[i].to = 0)
                   /\ ~x.asked[i].target.broadcast
                        => (h[i].path = "send_to"
                              /\ h[i].to = x.asked[i].target.id)

\* an execution sent one message to a member and one to all
C17_Witness ==
    /\ net.on
    /\ \E e \in Execs :
         /\ Len(Handed(e)) = 2
         /\ \E i, j \in 1..2 : /\ Handed(e)[i].path = "broadcast"
                               /\ Handed(e)[j].path = "send_to"
                               /\ Handed(e)[j].to \in Peers(net.ex[e])

----------------------------------------------------------------------------
\* C18: before completion and before the deadline, whenever the
\* computation has an outbound message to emit or an inbound message is
\* available, one of the tasks of the execution can take a step.
C18_PathsDoNotBlockEachOther ==
    (/\ TaskRunning
     /\ \/ tasks.pending > 0
        \/ tasks.arrived > 0
        \/ tasks.chan[InChannel] # <<>>)
        => ENABLED TaskStep

\* the computation waits to emit while an inbound message waits for it and
\* another one waits at the transport
C18_Witness ==
    /\ TaskRunning
    /\ tasks.pending > 0
    /\ Len(tasks.chan[OutChannel]) = ChanCap
    /\ Len(tasks.chan[InChannel]) = ChanCap
    /\ tasks.arrived > 0

----------------------------------------------------------------------------
\* C20: for every valid ThresholdSigner x, Marshal and then Unmarshal give
\* no error and a signer equal to x in every field: the group id, the member
\* id, the list of member ids, the threshold, every large integer and every
\* curve point of the key.
C20_SignerRoundTrip ==
    (codec.on /\ codec.pc = "returned" /\ ValidSigner(codec.x))
        => (codec.err = "" /\ codec.y = codec.x)

\* a signer with a secret share of zero, the longest list of members and
\* large integers of more than one byte went through Marshal and Unmarshal
C20_Witness ==
    /\ codec.on
    /\ codec.pc = "returned"
    /\ ValidSigner(codec.x)
    /\ codec.x.thresholdKey.LocalSecrets.Xi = 0
    /\ Len(codec.x.groupInfo.groupMemberIDs) = MaxGroup
    /\ codec.x.thresholdKey.Ks[1] > 255
    /\ codec.y = codec.x


\* C21: every protocol message comes back from Unmarshal(Marshal(m)) with the
\* same sender id, payload bytes and broadcast flag, and every join message
\* and every announce message with the same sender id.
C21_MessagesRoundTrip ==
    (codec.on /\ codec.pc = "message returned") =>
        /\ codec.y.SenderID = codec.x.m.SenderID
        /\ codec.x.type = TSSProtocolMessageType =>
               /\ codec.y.Payload = codec.x.m.Payload
               /\ codec.y.IsBroadcast = codec.x.m.IsBroadcast

\* a broadcast protocol message with a sender id and a payload came back
C21_Witness ==
    /\ codec.on
    /\ codec.pc = "message returned"
    /\ codec.x.type = TSSProtocolMessageType
    /\ codec.x.m.IsBroadcast
    /\ codec.x.m.Payload = <<0, 0>>
    /\ codec.x.m.SenderID = <<0, 1>>
    /\ codec.y = codec.x.m


\* C22: every error is terminal: in one call the bridge is created, the party
\* initialized, the join protocol entered and the rounds entered at most
\* once and in this order; a step that fails makes the call return its error
\* in that very step, no later step has run when the error is returned, and
\* nothing of the call runs after the return.
C22_ErrorsAreTerminal ==
    /\ [](join.runs <= 1)
    /\ [](join.state = "TimedOut" =>
            pc = "returned" /\ result.err.cause = "JoinTimeout")
    /\ [](rounds.phase = "expired" =>
            pc = "returned" /\ result.err.cause = TimeoutError)
    /\ []((pc = "returned" /\ result.err # NoErr) =>
            /\ result.val = "nil"
            /\ result.err.wrap = "bridge" =>
                   ~ctx.set /\ join.runs = 0 /\ ~rounds.started
            /\ result.err.cause \in {"PartyInitFailure", "InvalidDigestLength"} =>
                   join.runs = 0 /\ ~rounds.started
            /\ result.err.wrap = "join" => join.runs = 1 /\ ~rounds.started
            /\ result.err.wrap \in {"generate", "sign"} =>
                   join.state = "Ready" /\ rounds.started)
    /\ [][/\ pc = "idle" => pc' \in {"idle", "init", "returned"}
          /\ pc = "init" => pc' \in {"init", "join", "returned"}
          /\ pc = "join" => pc' \in {"join", "rounds", "returned"}
          /\ pc = "rounds" => pc' \in {"rounds", "returned"}
          /\ pc = "returned" =>
                 pc' = "idle" /\ join'.runs = 0 /\ ~rounds'.started
          /\ (bridge # "open" /\ bridge' = "open") => pc = "idle"
          /\ join'.runs # join.runs =>
                 pc' = "idle" \/ (pc = "init" /\ pc' = "join")
          /\ (~rounds.started /\ rounds'.started) =>
                 pc = "join" /\ pc' = "rounds"
          /\ rounds.started => rounds'.n >= rounds.n \/ pc' = "idle"]_vars

\* a signing call returned the error of its rounds after one round, its join
\* protocol entered once
C22_Witness ==
    /\ pc = "returned"
    /\ call.kind = "sign"
    /\ result.err = Err("sign", "ProtocolFailure")
    /\ join.runs = 1
    /\ rounds.n = 1


\* C23: CalculateSignature leaves the signer unchanged: once key generation
\* has produced the signer, no step of any signing call, successful or
\* failed, changes its group info or its threshold key, and every signing
\* call works on the group info of the signer.
C23_SigningLeavesSignerUnchanged ==
    /\ [][signer.present => signer' = signer]_vars
    /\ [](call.kind = "sign" =>
             /\ signer.present
             /\ group = signer.groupInfo
             /\ signer.thresholdKey = "key")

\* a signing call returned a signature and the signer is the one of key
\* generation
C23_Witness ==
    /\ pc = "returned"
    /\ call.kind = "sign"
    /\ result.val = "signature"
    /\ signer = [present |-> TRUE, groupInfo |-> group, thresholdKey |-> "key"]


\* C24: for a valid group, key generation without pre-parameters goes the way
\* of a call with them: when the bridge is created the party initialization
\* is reached and can succeed and start the join protocol, and the call
\* returns no error other than the errors of the steps themselves; none
\* comes from the absence of pre-parameters.
C24_MissingPreParamsIsNoError ==
    LET without == call.kind = "keygen" /\ ~call.preParams
    IN  /\ (without /\ pc = "init") =>
               ENABLED (InitializeKeyGeneration(TRUE) /\ pc' = "join")
        /\ (without /\ pc = "returned" /\ result.err # NoErr) =>
               \/ /\ result.err.cause \in ConfigurationErrors
                  /\ \/ GroupSizeInvalid(call.groupMemberIDs)
                     \/ ThresholdInvalid(call.groupMemberIDs,
                                         call.dishonestThreshold)
               \/ /\ result.err = Err("bridge", "BridgeFailure")
                  /\ ~ctx.set
               \/ /\ result.err = Err("", "PartyInitFailure")
                  /\ join.runs = 0
               \/ /\ result.err = Err("join", "JoinTimeout")
                  /\ clock >= join.deadline
               \/ /\ result.err.wrap = "generate"
                  /\ result.err.cause \in {"TransportError", "ProtocolFailure",
                                           "KeyGenerationTimeout"}
        /\ (without /\ pc \in {"init", "join", "rounds"}) =>
               /\ ~GroupSizeInvalid(call.groupMemberIDs)
               /\ ~ThresholdInvalid(call.groupMemberIDs, call.dishonestThreshold)
               /\ bridge = "open"

\* a call without pre-parameters returned a signer
C24_Witness ==
    /\ pc = "returned"
    /\ call.kind = "keygen"
    /\ ~call.preParams
    /\ result = [val |-> "signer", err |-> NoErr]
    /\ signer.present


\* C25: createBond called by a bond creator the operator approved moves
\* exactly amount from the operator's unbonded value into the bond of
\* (operator, holder, reference) and changes nothing else; it reverts and
\* changes nothing when amount is more than the operator's available unbonded
\* value or when that bond is there already; a bond of another operator
\* under the same reference does not stand in the way.
C25_CreateBondMovesAmount ==
    keepBonding.on =>
        LET K == keepBonding IN
        \A o \in Operators, h \in Holders, ref \in References,
           a \in 0..(MaxDeposit + 1), p \in {sortitionPool, 0} :
            LET r == createBond(K, bondCreator, o, h, ref, a, p)
                key == <<o, h, ref>>
            IN  <<o, bondCreator>> \in K.staking =>
                IF \/ a > availableUnbondedValue(K, o, bondCreator, p)
                   \/ K.bonds[key] # 0
                THEN r.revert # "" /\ r.st = K
                ELSE /\ r.revert = ""
                     /\ r.st = [K EXCEPT !.unbonded[o] = K.unbonded[o] - a,
                                         !.bonds[key] = a]

\* the two operators have a bond each under the same reference and holder,
\* made by createBond, and a second bond for the same key is refused
C25_Witness ==
    /\ keepBonding.on
    /\ keepBonding.last = "createBond"
    /\ keepBonding.bonds[<<1, 3, 888>>] = 1
    /\ keepBonding.bonds[<<2, 3, 888>>] = 1
    /\ keepBonding.unbonded = [o \in Operators |-> 0]
    /\ createBond(keepBonding, bondCreator, 1, 3, 888, 0, sortitionPool).revert
           = "Reference ID not unique for holder and operator"
    /\ createBond(keepBonding, bondCreator, 1, 3, 777, 1, sortitionPool).revert
           = "Insufficient unbonded value"

\* C26: reassignBond called by the holder of the bond (operator, holder,
\* reference) moves its whole amount to (operator, newHolder, newReference),
\* leaves the old key at zero and every other key and the unbonded values as
\* they were; it reverts with 'Bond not found' when the caller holds no such
\* bond and with 'Reference ID not unique for holder and operator' when the
\* target key has a bond, changing nothing.
C26_ReassignBondMovesWholeBond ==
    keepBonding.on =>
        LET K == keepBonding IN
        \A s \in Holders, o \in Operators, ref \in References,
           h2 \in Holders, ref2 \in References :
            LET r == reassignBond(K, s, o, ref, h2, ref2)
                old == <<o, s, ref>>
                new == <<o, h2, ref2>>
                notFound == K.bonds[old] = 0
                taken == K.bonds[new] # 0
            IN  /\ (notFound /\ ~taken) => r.revert = "Bond not found"
                /\ (taken /\ ~notFound) =>
                       r.revert = "Reference ID not unique for holder and operator"
                /\ (notFound /\ taken) =>
                       r.revert \in {"Bond not found",
                                     "Reference ID not unique for holder and operator"}
                /\ r.revert # "" => r.st = K
                /\ (~notFound /\ ~taken) =>
                       /\ r.revert = ""
                       /\ r.st.bonds[new] = K.bonds[old]
                       /\ r.st.bonds[old] = 0
                       /\ \A k \in DOMAIN K.bonds \ {old, new} :
                              r.st.bonds[k] = K.bonds[k]
                       /\ r.st.unbonded = K.unbonded
                       /\ r.st.balance = K.balance

\* holder 2 reassigned its bond to holder 3 under a new reference; holder 2
\* has a second bond, which it cannot reassign to the key now taken
C26_Witness ==
    /\ keepBonding.on
    /\ keepBonding.last = "reassignBond"
    /\ keepBonding.bonds[<<1, 3, 888>>] = 1
    /\ keepBonding.bonds[<<1, 2, 777>>] = 0
    /\ keepBonding.bonds[<<1, 2, 888>>] = 1
    /\ reassignBond(keepBonding, 2, 1, 888, 3, 888).revert
           = "Reference ID not unique for holder and operator"
    /\ reassignBond(keepBonding, 2, 1, 777, 3, 777).revert = "Bond not found"

\* C27: seizeBond called by the holder of a bond goes through only for
\* 0 < amount <= bond; it then adds exactly amount to the balance of the
\* destination and takes exactly amount from the bond; it reverts for amount
\* zero, for an amount above the bond and when the destination refuses the
\* transfer, and after a revert the bonds and the balances are as before.
C27_SeizeBondTakesAmount ==
    keepBonding.on =>
        LET K == keepBonding IN
        \A s \in Holders, o \in Operators, ref \in References,
           a \in 0..(MaxDeposit + 1), d \in Destinations :
            LET r == seizeBond(K, s, o, ref, a, d)
                key == <<o, s, ref>>
                bond == K.bonds[key]
            IN  bond > 0 =>
                /\ r.revert = "" => (0 < a /\ a <= bond)
                /\ (a = 0 \/ a > bond \/ TransferFails(K, d)) =>
                       /\ r.revert # ""
                       /\ r.st.bonds = K.bonds
                       /\ r.st.balance = K.balance
                /\ (0 < a /\ a <= bond /\ ~TransferFails(K, d)) =>
                       /\ r.revert = ""
                       /\ r.st.balance = [K.balance EXCEPT ![d] = K.balance[d] + a]
                       /\ r.st.bonds = [K.bonds EXCEPT ![key] = bond - a]
                       /\ r.st.unbonded = K.unbonded

\* one unit of a bond of two was seized for accounts[3], one is left, and
\* the ether receiver refuses a transfer
C27_Witness ==
    /\ keepBonding.on
    /\ keepBonding.last = "seizeBond"
    /\ keepBonding.deposited = 2
    /\ keepBonding.bonds[<<1, 2, 777>>] = 1
    /\ keepBonding.balance[3] = 1
    /\ keepBonding.shouldFail
    /\ seizeBond(keepBonding, 2, 1, 777, 1, etherReceiver).revert
           = "Transfer failed"

\* C28: freeBond called by the holder of the bond (operator, holder,
\* reference) sets the bond to zero and adds its whole amount to the
\* operator's unbonded value, changing nothing else; called by an account
\* that holds no such bond it reverts with 'Bond not found' and changes
\* nothing.
C28_FreeBondReturnsWholeBond ==
    keepBonding.on =>
        LET K == keepBonding IN
        \A s \in Holders, o \in Operators, ref \in References :
            LET r == freeBond(K, s, o, ref)
                key == <<o, s, ref>>
                bond == K.bonds[key]
            IN  IF bond > 0
                THEN /\ r.revert = ""
                     /\ r.st = [K EXCEPT !.bonds[key] = 0,
                                         !.unbonded[o] = K.unbonded[o] + bond]
                ELSE /\ r.revert = "Bond not found"
                     /\ r.st = K

\* holder 2 freed its bond; the bond of holder 3 is still there, and holder 2
\* cannot free it
C28_Witness ==
    /\ keepBonding.on
    /\ keepBonding.last = "freeBond"
    /\ keepBonding.bonds[<<1, 2, 777>>] = 0
    /\ keepBonding.bonds[<<1, 3, 888>>] = 1
    /\ keepBonding.unbonded[1] = 1
    /\ keepBonding.deposited = 2
    /\ keepBonding.paid = 0
    /\ freeBond(keepBonding, 2, 1, 888).revert = "Bond not found"
    /\ freeBond(keepBonding, 3, 1, 888).st.unbonded[1] = 2

\* C29: availableUnbondedValue is the operator's unbonded value when the
\* operator approved the bond creator and the sortition pool is authorized
\* for the operator, and zero when the operator has no deposit, when the bond
\* creator is not approved or when the pool is not authorized; a pool gets
\* authorized for an operator only by a call of
\* authorizeSortitionPoolContract, which goes through only for the
\* operator's authorizer.
C29_AvailableOnlyWhenAuthorized ==
    /\ [](keepBonding.on =>
            LET K == keepBonding IN
            \A o \in Operators :
                /\ \A c \in {bondCreator, 0}, p \in {sortitionPool, 0} :
                       LET v == availableUnbondedValue(K, o, c, p)
                       IN  /\ (<<o, c>> \in K.staking /\ <<o, p>> \in K.pools)
                                  => v = K.unbonded[o]
                           /\ K.unbonded[o] = 0 => v = 0
                           /\ <<o, c>> \notin K.staking => v = 0
                           /\ <<o, p>> \notin K.pools => v = 0
                /\ \A s \in Operators :
                       LET r == authorizeSortitionPoolContract(K, s, o,
                                                               sortitionPool)
                       IN  IF s = o
                           THEN /\ r.revert = ""
                                /\ <<o, sortitionPool>> \in r.st.pools
                           ELSE r.revert = "Not authorized" /\ r.st = K)
    /\ [][keepBonding.on /\ keepBonding'.pools # keepBonding.pools =>
            /\ keepBonding'.last = "authorizeSortitionPoolContract"
            /\ \E o \in Operators :
                   keepBonding'.pools =
                       keepBonding.pools \cup {<<o, sortitionPool>>}]_vars

\* both operators deposited and approved the bond creator; the pool is
\* authorized for operator 1 only, so operator 2 has nothing available
C29_Witness ==
    /\ keepBonding.on
    /\ keepBonding.unbonded = [o \in Operators |-> 1]
    /\ keepBonding.staking = Operators \X {bondCreator}
    /\ keepBonding.pools = {<<1, sortitionPool>>}
    /\ keepBonding.last = "authorizeSortitionPoolContract"
    /\ availableUnbondedValue(keepBonding, 1, bondCreator, sortitionPool) = 1
    /\ availableUnbondedValue(keepBonding, 2, bondCreator, sortitionPool) = 0

\* C30: withdraw called by an operator takes exactly amount from the
\* operator's unbonded value and adds it to the balance of the destination;
\* it reverts with 'Insufficient unbonded value' when amount is more than the
\* unbonded value and with 'Transfer failed' when the destination refuses
\* the transfer, and after a revert the unbonded values are as before.
C30_WithdrawTakesAmount ==
    keepBonding.on =>
        LET K == keepBonding IN
        \A o \in Operators, a \in 0..(MaxDeposit + 1), d \in Destinations :
            LET r == withdraw(K, o, a, d)
                short == a > K.unbonded[o]
                refused == TransferFails(K, d)
            IN  /\ (short /\ ~refused) =>
                       r.revert = "Insufficient unbonded value"
                /\ (refused /\ ~short) => r.revert = "Transfer failed"
                /\ (short /\ refused) =>
                       r.revert \in {"Insufficient unbonded value",
                                     "Transfer failed"}
                /\ r.revert # "" =>
                       r.st.unbonded = K.unbonded /\ r.st.balance = K.balance
                /\ (~short /\ ~refused) =>
                       /\ r.revert = ""
                       /\ r.st.unbonded =
                              [K.unbonded EXCEPT ![o] = K.unbonded[o] - a]
                       /\ r.st.balance =
                              [K.balance EXCEPT ![d] = K.balance[d] + a]
                       /\ r.st.bonds = K.bonds

\* operator 1 withdrew one unit of two to accounts[3]; the ether receiver
\* refuses a transfer, and two units are more than is left
C30_Witness ==
    /\ keepBonding.on
    /\ keepBonding.last = "withdraw"
    /\ keepBonding.unbonded[1] = 1
    /\ keepBonding.balance[3] = 1
    /\ keepBonding.shouldFail
    /\ withdraw(keepBonding, 1, 1, etherReceiver).revert = "Transfer failed"
    /\ withdraw(keepBonding, 1, 2, 3).revert = "Insufficient unbonded value"


\* C31: the join protocol only moves forward, Idle -> Announcing -> Waiting
\* -> Ready | TimedOut; no step of the instance leaves Ready or TimedOut (the
\* instance goes away with its call); seen only grows, changes only while
\* Waiting, and holds members of the group other than the local one only;
\* every execution enters a new instance, Idle with an empty seen set,
\* whatever an earlier execution of the group has seen.
C31_JoinMovesForward ==
    /\ [](join.state \in {"None", "Idle", "Announcing", "Waiting", "Ready",
                          "TimedOut"})
    /\ [](join.seen \subseteq Peers(group))
    /\ [](join.state \in {"None", "Idle", "Announcing"} => join.seen = {})
    /\ [][/\ join.state = "None" => join'.state \in {"None", "Idle"}
          /\ join.state = "Idle" => join'.state \in {"Idle", "Announcing"}
          /\ join.state = "Announcing" =>
                 join'.state \in {"Announcing", "Waiting"}
          /\ join.state = "Waiting" =>
                 join'.state \in {"Waiting", "Ready", "TimedOut"}
          /\ join.state \in {"Ready", "TimedOut"} =>
                 \/ join' = join
                 \/ pc = "returned" /\ pc' = "idle" /\ join' = NoJoin
          /\ join'.seen # join.seen =>
                 \/ join.state = "Waiting" /\ join.seen \subseteq join'.seen
                 \/ pc' = "idle" /\ join' = NoJoin
          /\ (join'.state = "Idle" /\ join.state # "Idle") =>
                 /\ join.state = "None"
                 /\ join'.seen = {}
                 /\ join'.nsignals = 0
                 /\ join'.runs = 1]_vars

\* a signing call of a group of three, whose key generation saw every peer:
\* its join protocol started anew, saw one peer and timed out
C31_Witness ==
    /\ call.kind = "sign"
    /\ signer.present
    /\ Len(group.groupMemberIDs) = 3
    /\ join.state = "TimedOut"
    /\ Cardinality(join.seen) = 1
    /\ join.runs = 1


\* C32: the groupInfo that GenerateThresholdSigner has constructed, and
\* given to the network bridge, has 0 <= dishonestThreshold <
\* len(groupMemberIDs), whatever the value of the unsigned argument.
C32_GroupInfoThresholdInRange ==
    (call.kind = "keygen" /\ group # NoGroup) =>
        /\ 0 <= group.dishonestThreshold
        /\ group.dishonestThreshold < Len(group.groupMemberIDs)


\* C33: a signing call on a signer whose group info has fewer than 2 members,
\* or a threshold not smaller than the number of members, has returned a
\* configuration error and no signature, and has created no bridge, sent no
\* message and subscribed to nothing.
C33_SigningValidatesGroupInfo ==
    LET g == signer.groupInfo
    IN  (/\ call.kind = "sign"
         /\ \/ Len(g.groupMemberIDs) < 2
            \/ g.dishonestThreshold >= Len(g.groupMemberIDs)) =>
            /\ pc = "returned"
            /\ result.val = "nil"
            /\ result.err.cause \in ConfigurationErrors
            /\ NoNetworkActivity


\* the sum of the values of a function with a finite domain
RECURSIVE SumOver(_, _)
SumOver(f, D) ==
    IF D = {} THEN 0
    ELSE LET d == CHOOSE x \in D : TRUE
         IN  f[d] + SumOver(f, D \ {d})

\* C34: after any calls of deposit, withdraw, createBond, reassignBond,
\* freeBond and seizeBond, reverted ones among them, the unbonded values and
\* the bond amounts add up to what was deposited less what withdraw and
\* seizeBond paid out (which is what the destinations received), and none of
\* them is negative.
C34_ValueConserved ==
    keepBonding.on =>
        LET K == keepBonding
            held == SumOver(K.unbonded, DOMAIN K.unbonded)
                        + SumOver(K.bonds, DOMAIN K.bonds)
        IN  /\ held = K.deposited - K.paid
            /\ K.paid = SumOver(K.balance, DOMAIN K.balance)
            /\ \A o \in DOMAIN K.unbonded : K.unbonded[o] >= 0
            /\ \A k \in DOMAIN K.bonds : K.bonds[k] >= 0

\* two units were deposited, bonded, one was seized and the other freed: one
\* unit is unbonded, one was paid out, no bond is left
C34_Witness ==
    /\ keepBonding.on
    /\ keepBonding.last = "freeBond"
    /\ keepBonding.deposited = 2
    /\ keepBonding.paid = 1
    /\ keepBonding.balance[3] = 1
    /\ keepBonding.unbonded[1] = 1
    /\ \A k \in DOMAIN keepBonding.bonds : keepBonding.bonds[k] = 0


\* C35: a call that has returned carries either an error or a result, never
\* both and never neither: with an error the value is nil; without an error
\* the value is the signer (key generation) or the signature (signing) of
\* the rounds this call has completed after its join protocol was Ready.
C35_ResultOrError ==
    pc = "returned" =>
        /\ result.err # NoErr => result.val = "nil"
        /\ result.err = NoErr =>
               /\ result.val = IF call.kind = "keygen" THEN "signer"
                               ELSE "signature"
               /\ join.state = "Ready"
               /\ rounds.phase = "done"
               /\ rounds.n = NumRounds
               /\ call.kind = "keygen" =>
                      signer = [present |-> TRUE, groupInfo |-> group,
                                thresholdKey |-> "key"]

\* a key generation returned its signer after the last round, and the value
\* is not nil
C35_Witness ==
    /\ pc = "returned"
    /\ call.kind = "keygen"
    /\ result.err = NoErr
    /\ result.val = "signer"
    /\ rounds.phase = "done"
    /\ rounds.n = NumRounds
    /\ Len(sent) = NumRounds + 1


\* C36: when ThresholdSigner.Unmarshal returns an error, the group info of
\* the receiver (group id, member id, member list, threshold) is what it was
\* before the call, for a new receiver and for one that had a group info.
C36_UnmarshalErrorKeepsGroupInfo ==
    /\ (codec.on /\ codec.pc = "returned" /\ codec.err # "") =>
           codec.y.groupInfo = EmptySigner.groupInfo
    /\ (codec.on /\ codec.pc \in {"marshalled", "returned"}) =>
           LET s == [codec.x EXCEPT !.groupInfo.groupID = "other keep"]
               r == ThresholdSignerUnmarshal(s, codec.bytes)
           IN  r.err # "" => r.signer.groupInfo = s.groupInfo

\* the bytes of a signer of a group of three were not decoded, and the
\* receiver has no group info
C36_Witness ==
    /\ codec.on
    /\ codec.pc = "returned"
    /\ codec.err # ""
    /\ Len(codec.x.groupInfo.groupMemberIDs) = 3
    /\ codec.y.groupInfo = EmptySigner.groupInfo
    /\ codec.y.groupInfo # codec.x.groupInfo

====
